---- MODULE Spec2Model ----
(***************************************************************************)
(* Verification model of dsp-milkyway-tool: the binary reader              *)
(* (binary_reader.py), the seed-key codec and formatter (helpers.py), the  *)
(* record decoders (user_data_downloader.py, cluster_player_downloader.py, *)
(* downloader.py), the cluster pagination loop and the digest routine      *)
(* (md5f.py).                                                              *)
(***************************************************************************)
EXTENDS Integers, Sequences, FiniteSets, TLC

VARIABLES
    data,       \* the byte buffer under the reader (BytesIO / file content)
    pos,        \* the stream cursor of the reader
    pos0,       \* the cursor when the last operation started
    op,         \* the last operation that ran
    arg,        \* the input of the last operation
    status,     \* "none", "ok" or the exception the last operation raised
    ret,        \* what the last operation returned to its caller
    files,      \* the output files written so far: name -> rows
    pc,         \* where a running download_and_parse_cluster_players call is
    page_index, \* its loop variable
    all_players,\* its list of records collected so far
    events,     \* history: the delays and page fetches of the call, in order
    A, B, C, D, \* the class attributes MD5F.A, MD5F.B, MD5F.C, MD5F.D
    calls,      \* the MD5F.Compute calls in progress: their locals and position
    login_key,  \* FullDataDownloader.login_key
    full_data_url, \* FullDataDownloader.full_data_url
    fetches     \* history: the urls given to fetch_full_data, in order

vars == <<data, pos, pos0, op, arg, status, ret, files, pc, page_index, all_players, events,
          A, B, C, D, calls, login_key, full_data_url, fetches>>

\* the state of the pagination loop
cluster_vars == <<pc, page_index, all_players, events>>

\* no download_and_parse_cluster_players call is running
ClusterIdle ==
    /\ pc = "idle"
    /\ page_index = 0
    /\ all_players = <<>>
    /\ events = <<>>

\* the state of the digest routine
digest_vars == <<A, B, C, D, calls>>

\* MD5F as the class body leaves it (md5f.py:52-55), no Compute call running
DigestIdle ==
    /\ A = [hi |-> 0, lo |-> 0]
    /\ B = [hi |-> 0, lo |-> 0]
    /\ C = [hi |-> 0, lo |-> 0]
    /\ D = [hi |-> 0, lo |-> 0]
    /\ calls = <<>>

\* the state of a FullDataDownloader
login_vars == <<login_key, full_data_url, fetches>>

\* Python's None among character strings (a string is the sequence of its
\* characters)
None == <<"None">>

\* a FullDataDownloader as __init__ leaves it (downloader.py:25-26), nothing
\* fetched
LoggedOut ==
    /\ login_key = None
    /\ full_data_url = None
    /\ fetches = <<>>

\* no output file exists
NoFiles == [name \in {} |-> <<>>]

----------------------------------------------------------------------------
(* Bounds of the model *)

\* longest buffer handed to the reader in SpecReader
MaxLen == 6
\* largest n passed to BinReader.read in SpecReader
MaxRead == 3
\* largest seed packed into a seed key in SpecSeed
MaxSeed == 3
\* largest integer whose decimal string int() is given in SpecSeed
MaxParsed == 999
\* largest record count announced by a buffer in SpecDecode
MaxRecords == 11
\* largest record count of each block of a full-data file in SpecDecode
MaxBlock == 2
\* largest page budget of a cluster download in SpecCluster
MaxPages == 3

----------------------------------------------------------------------------
(* Integers wider than the checker's machine integers.  Python integers    *)
(* are unbounded; a value that can pass 2^31 is kept as two limbs,         *)
(* value = hi * 2^28 + lo with 0 <= lo < 2^28.                             *)

Limb == 2^28

Wide(hi, lo) == [hi |-> hi, lo |-> lo]

WideZero == Wide(0, 0)

\* x << shift for a 7-bit x, as the two limbs of the product
WideShl(x, shift) ==
    IF shift >= 28
    THEN Wide(x * 2^(shift - 28), 0)
    ELSE Wide((x * 2^shift) \div Limb, (x * 2^shift) % Limb)

RECURSIVE BitOr(_, _)
\* a | b on non-negative integers
BitOr(a, b) ==
    IF a = 0 THEN b
    ELSE IF b = 0 THEN a
    ELSE (IF a % 2 = 1 \/ b % 2 = 1 THEN 1 ELSE 0) + 2 * BitOr(a \div 2, b \div 2)

RECURSIVE BitAnd(_, _)
\* a & b on non-negative integers
BitAnd(a, b) ==
    IF a = 0 \/ b = 0 THEN 0
    ELSE (IF a % 2 = 1 /\ b % 2 = 1 THEN 1 ELSE 0) + 2 * BitAnd(a \div 2, b \div 2)

\* a | b limb by limb
WideOr(a, b) == Wide(BitOr(a.hi, b.hi), BitOr(a.lo, b.lo))

\* v < 2^32
WideBelow32(v) == v.hi < 16

\* the byte count n of read(n) for a wide n: every n beyond the buffer reads
\* alike (a stream over a file may raise MemoryError for such an n before it
\* reads; the decoders fail either way)
AsCount(v) == IF v.hi = 0 THEN v.lo ELSE Limb

----------------------------------------------------------------------------
(* binary_reader.py: BinReader over a buffer with a cursor.  Each operator *)
(* returns [st, val, pos]: the outcome, the value returned and the cursor  *)
(* after the call.                                                         *)

Result(st, val, p) == [st |-> st, val |-> val, pos |-> p]

\* a stream that moves its cursor by n whatever is left
stream_read_unclipped(buf, p, n) ==
    [bytes |-> SubSeq(buf, p + 1, IF p + n < Len(buf) THEN p + n ELSE Len(buf)), pos |-> p + n]

\* f.read(n) of the underlying stream: up to n bytes, n < 0 reads to the end
stream_read(buf, p, n) ==
    LET avail == Len(buf) - p
        k == IF n < 0 \/ n > avail THEN avail ELSE n
    IN [bytes |-> SubSeq(buf, p + 1, p + k), pos |-> p + k]

\* read without the length check: a short read is handed to the caller
read_short(buf, p, n) ==
    LET b == stream_read(buf, p, n)
    IN Result("ok", b.bytes, b.pos)

\* read that puts the cursor back when it fails
read_restores(buf, p, n) ==
    LET b == stream_read(buf, p, n)
    IN IF Len(b.bytes) # n
       THEN Result("EOFError", <<>>, p)
       ELSE Result("ok", b.bytes, b.pos)

read(buf, p, n) ==
    LET b == stream_read(buf, p, n)
    IN IF Len(b.bytes) # n
       THEN Result("EOFError", <<>>, b.pos)
       ELSE Result("ok", b.bytes, b.pos)

\* struct.unpack("<B")
u8(buf, p) ==
    LET r == read(buf, p, 1)
    IN IF r.st # "ok" THEN r ELSE Result("ok", r.val[1], r.pos)

RECURSIVE LittleEndian(_)
\* the unsigned little-endian value of a byte string
LittleEndian(bytes) ==
    IF bytes = <<>> THEN 0 ELSE Head(bytes) + 256 * LittleEndian(Tail(bytes))

Complement(bytes) == [i \in 1..Len(bytes) |-> 255 - bytes[i]]

\* the two's-complement little-endian value of a byte string
SignedLittleEndian(bytes) ==
    IF bytes[Len(bytes)] >= 128
    THEN (0 - LittleEndian(Complement(bytes))) - 1
    ELSE LittleEndian(bytes)

\* struct.unpack("<I"): unsigned, up to 2^32 - 1, kept wide
u32(buf, p) ==
    LET r == read(buf, p, 4)
    IN IF r.st # "ok" THEN r
       ELSE Result("ok",
                   Wide(r.val[4] \div 16,
                        LittleEndian(<<r.val[1], r.val[2], r.val[3], r.val[4] % 16>>)),
                   r.pos)

\* a count read as its magnitude
i32_magnitude(buf, p) ==
    LET r == read(buf, p, 4)
    IN IF r.st # "ok" THEN r
       ELSE Result("ok",
                   IF r.val[4] >= 128 THEN LittleEndian(Complement(r.val)) + 1
                   ELSE LittleEndian(r.val),
                   r.pos)

\* struct.unpack("<i")
i32(buf, p) ==
    LET r == read(buf, p, 4)
    IN IF r.st # "ok" THEN r ELSE Result("ok", SignedLittleEndian(r.val), r.pos)

\* struct.unpack("<q")
i64(buf, p) ==
    LET r == read(buf, p, 8)
    IN IF r.st # "ok" THEN r ELSE Result("ok", SignedLittleEndian(r.val), r.pos)

\* the shift at which read7bit_encoded_int gives up
MaxShift == 35

\* the loop test off by one byte: a sixth byte is accepted
varint_loop_done_late(shift) == shift = MaxShift + 7

\* while shift != 35
varint_loop_done(shift) == shift = MaxShift

\* the payload without the mask: the continuation bit leaks into the value
varint_payload_unmasked(b) == b

\* b & 0x7F
varint_payload(b) == BitAnd(b, 127)

\* num |= x << shift
varint_or(num, x, shift) == WideOr(num, WideShl(x, shift))

\* the stop test inverted: the loop ends at the first byte with the high bit set
varint_stop_inverted(b) == BitAnd(b, 128) # 0

\* (b & 0x80) == 0
varint_stop(b) == BitAnd(b, 128) = 0

RECURSIVE varint_loop(_, _, _, _)
\* the while loop of read7bit_encoded_int from (num, shift) on
varint_loop(buf, p, num, shift) ==
    IF varint_loop_done(shift)
    THEN Result("ValueError", <<>>, p)
    ELSE LET b == u8(buf, p)
         IN IF b.st # "ok" THEN b
            ELSE LET num2 == varint_or(num, varint_payload(b.val), shift)
                 IN IF varint_stop(b.val)
                    THEN Result("ok", num2, b.pos)
                    ELSE varint_loop(buf, b.pos, num2, shift + 7)

read7bit_encoded_int(buf, p) == varint_loop(buf, p, WideZero, 0)

----------------------------------------------------------------------------
(* SpecReader: one reader over one buffer, operations in any order.        *)

\* the byte values buffers are built from: a small terminator, a terminator
\* with every payload bit, a continuation byte with every payload bit
ByteVals == {1, 127, 255}

RECURSIVE SeqsUpTo(_, _)
SeqsUpTo(S, n) ==
    IF n = 0 THEN {<<>>}
    ELSE LET shorter == SeqsUpTo(S, n - 1)
         IN shorter \cup {Append(s, x) : s \in {t \in shorter : Len(t) = n - 1}, x \in S}

\* v >> 7
WideShr7(v) == Wide(v.hi \div 128, (v.lo \div 128) + (v.hi % 128) * 2^21)

RECURSIVE encode_varint(_)
\* the little-endian 7-bit continuation encoding of v (the producer's side)
encode_varint(v) ==
    IF v.hi = 0 /\ v.lo < 128
    THEN <<v.lo>>
    ELSE <<(v.lo % 128) + 128>> \o encode_varint(WideShr7(v))

\* values 0 <= v < 2^32 around every length boundary of the encoding
VarintTestValues ==
    {Wide(h, l) : h \in {0, 1, 7, 8, 15},
                  l \in {0, 1, 127, 128, 16383, 16384, 2097151, 2097152, Limb - 1}}

EncodedBuffers ==
    {encode_varint(v) \o t : v \in VarintTestValues, t \in {<<>>, <<255>>}}

\* BinReader.__init__
InitReader ==
    /\ data \in SeqsUpTo(ByteVals, MaxLen) \cup EncodedBuffers
    /\ pos = 0
    /\ pos0 = 0
    /\ op = "new"
    /\ arg = 0
    /\ status = "none"
    /\ ret = <<>>
    /\ files = NoFiles
    /\ ClusterIdle
    /\ DigestIdle
    /\ LoggedOut

Apply(name, a, r) ==
    /\ op' = name
    /\ arg' = a
    /\ pos0' = pos
    /\ status' = r.st
    /\ ret' = r.val
    /\ pos' = r.pos
    /\ UNCHANGED <<data, files>>
    /\ UNCHANGED cluster_vars
    /\ UNCHANGED digest_vars
    /\ UNCHANGED login_vars

Read == \E n \in 0..MaxRead : Apply("read", n, read(data, pos, n))

ReadU8 == Apply("u8", 0, u8(data, pos))

ReadU32 == Apply("u32", 0, u32(data, pos))

ReadI32 == Apply("i32", 0, i32(data, pos))

Read7BitEncodedInt == Apply("read7bit_encoded_int", 0, read7bit_encoded_int(data, pos))

NextReader == Read \/ ReadU8 \/ ReadU32 \/ ReadI32 \/ Read7BitEncodedInt

SpecReader == InitReader /\ [][NextReader]_vars

----------------------------------------------------------------------------
(* Claims about the reader, checked under SpecReader.                      *)

\* C1: read(n) at cursor c returns exactly bytes c..c+n-1 and moves the cursor
\* to c+n when at least n bytes remain; otherwise it raises EOFError and hands
\* no bytes to the caller.
C1_ReadExact ==
    op = "read" =>
        IF Len(data) - pos0 >= arg
        THEN /\ status = "ok"
             /\ ret = [i \in 1..arg |-> data[pos0 + i]]
             /\ pos = pos0 + arg
        ELSE /\ status = "EOFError"
             /\ ret = <<>>

\* a read of n bytes with some, but fewer than n, bytes left
C1_Witness ==
    /\ op = "read"
    /\ Len(data) - pos0 >= 1
    /\ Len(data) - pos0 < arg
    /\ status = "EOFError"

\* C2: decoding the varint encoding of any 0 <= v < 2^32 returns v.
C2_VarintRoundTrip ==
    \A v \in VarintTestValues :
        LET e == encode_varint(v)
        IN (/\ op = "read7bit_encoded_int"
            /\ Len(data) - pos0 >= Len(e)
            /\ SubSeq(data, pos0 + 1, pos0 + Len(e)) = e)
           => (status = "ok" /\ ret = v /\ pos = pos0 + Len(e))

\* a five-byte encoding of a value with bit 31 set was decoded
C2_Witness ==
    /\ op = "read7bit_encoded_int"
    /\ status = "ok"
    /\ pos = pos0 + 5
    /\ ret = Wide(15, Limb - 1)
    /\ SubSeq(data, pos0 + 1, pos0 + 5) = encode_varint(Wide(15, Limb - 1))

HighBitSet(b) == b >= 128

\* C3: read7bit_encoded_int raises ValueError whenever the first five bytes at
\* the cursor all have the high bit set, and never raises it when one of the
\* first five bytes has the high bit clear.
C3_VarintTooLong ==
    op = "read7bit_encoded_int" =>
        /\ (/\ Len(data) - pos0 >= 5
            /\ \A i \in 1..5 : HighBitSet(data[pos0 + i]))
           => status = "ValueError"
        /\ (\E i \in 1..5 : pos0 + i <= Len(data) /\ ~HighBitSet(data[pos0 + i]))
           => status # "ValueError"

\* five continuation bytes were read and the call raised ValueError
C3_Witness ==
    /\ op = "read7bit_encoded_int"
    /\ status = "ValueError"
    /\ pos = pos0 + 5
    /\ \A i \in 1..5 : HighBitSet(data[pos0 + i])

\* C4: every value read7bit_encoded_int returns is an unsigned 32-bit value,
\* 0 <= v < 2^32.
C4_VarintIsUnsigned32 ==
    (op = "read7bit_encoded_int" /\ status = "ok") =>
        (ret.hi >= 0 /\ ret.lo >= 0 /\ WideBelow32(ret))

----------------------------------------------------------------------------
(* helpers.py: the seed-key codec.                                         *)

\* the decimal digits of str(n)
Digit == <<"0", "1", "2", "3", "4", "5", "6", "7", "8", "9">>

RECURSIVE str(_)
\* str(n) of an integer
str(n) ==
    IF n < 0 THEN "-" \o str(0 - n)
    ELSE IF n < 10 THEN Digit[n + 1]
    ELSE str(n \div 10) \o Digit[(n % 10) + 1]

\* the two display literals of helpers.py, written by their code points
Unlimited == "U+65E0 U+9650"
PeaceMode == "U+548C U+5E73 U+6A21 U+5F0F"

\* f"{n / 10.0:.1f}" for 0 <= n < 1000: n tenths print exactly
resource_multiplier(n) ==
    IF n = 99 THEN Unlimited ELSE str(n \div 10) \o "." \o str(n % 10)

\* the display without the reduction mod 100
combat_mode_difficulty_whole(n) ==
    IF (n \div 100) = 0 THEN PeaceMode ELSE str(n)

combat_mode_difficulty_number(n) ==
    IF (n \div 100) = 0 THEN PeaceMode ELSE str(n % 100)

\* seed_key // 100_000_000
seed_of_key(key) == key \div 100000000

\* the star field taken two digits wide
stars_of_key_narrow(key) == (key \div 100000) % 100

\* (seed_key // 100_000) % 1000
stars_of_key(key) == (key \div 100000) % 1000

\* the multiplier field taken from the wrong position
mult_raw_of_key_shifted(key) == (key \div 100) % 100

\* (seed_key // 1000) % 100
mult_raw_of_key(key) == (key \div 1000) % 100

\* seed_key % 1000
diff_raw_of_key(key) == key % 1000

decode_seed_key(seed_key) ==
    <<seed_of_key(seed_key),
      stars_of_key(seed_key),
      resource_multiplier(mult_raw_of_key(seed_key)),
      combat_mode_difficulty_number(diff_raw_of_key(seed_key))>>

\* the packing the page request relies on; helpers.py does not define it
encode_seed_key(seed, stars, resource_mult, combat_diff) ==
    seed * 100000000 + stars * 100000 + resource_mult * 1000 + combat_diff

\* {1: "Steam", 2: "WeGame", 3: "XGP"}.get(pid, "Standalone")
\* a mapping that knows no platform
platform_name_unmapped(pid) == "Standalone"

\* {1: "Steam", 2: "WeGame", 3: "XGP"}.get(pid, "Standalone")
platform_name(pid) ==
    IF pid = 1 THEN "Steam"
    ELSE IF pid = 2 THEN "WeGame"
    ELSE IF pid = 3 THEN "XGP"
    ELSE "Standalone"

----------------------------------------------------------------------------
(* helpers.py: format_generation_capacity.  value = watts / threshold is a *)
(* double and f"{value:.{d}f}" prints the double rounded half-even; both   *)
(* are computed here on integers.                                          *)

\* the units list, each threshold 10^exp
Units ==
    <<[exp |-> 15, unit |-> "PW"],
      [exp |-> 12, unit |-> "TW"],
      [exp |-> 9, unit |-> "GW"],
      [exp |-> 6, unit |-> "MW"],
      [exp |-> 3, unit |-> "kW"],
      [exp |-> 0, unit |-> "W"]>>

RECURSIVE NumDigits(_)
\* the number of decimal digits of n >= 0
NumDigits(n) == IF n < 10 THEN 1 ELSE 1 + NumDigits(n \div 10)

RECURSIVE Zeros(_)
Zeros(k) == IF k <= 0 THEN "" ELSE "0" \o Zeros(k - 1)

\* watts is a Python int and can pass 2^31: it is kept as two decimal limbs,
\* value = hi * 10^9 + lo with 0 <= lo < 10^9 (hi < 0 for a negative value)
Giga == 10^9

Dec(hi, lo) == [hi |-> hi, lo |-> lo]

\* the limbs of a machine integer
DecOf(n) == Dec(n \div Giga, n % Giga)

\* -w
DecNeg(w) == IF w.lo = 0 THEN Dec(0 - w.hi, 0) ELSE Dec((0 - w.hi) - 1, Giga - w.lo)

\* a < b
DecLess(a, b) == a.hi < b.hi \/ (a.hi = b.hi /\ a.lo < b.lo)

\* 10^m, m <= 17
DecPow(m) == IF m >= 9 THEN Dec(10^(m - 9), 0) ELSE Dec(0, 10^m)

\* w // 10^m for w >= 0 with a quotient inside the machine integers
DecDiv(w, m) ==
    IF m >= 9 THEN w.hi \div 10^(m - 9)
    ELSE (w.hi * 10^(9 - m)) + (w.lo \div 10^m)

\* w % 10^m for w >= 0
DecMod(w, m) ==
    IF m >= 9 THEN Dec(w.hi % 10^(m - 9), w.lo)
    ELSE Dec(0, w.lo % 10^m)

\* str(w)
DecStr(w) ==
    IF w.hi < 0 THEN "-" \o (IF DecNeg(w).hi = 0 THEN str(DecNeg(w).lo)
                             ELSE str(DecNeg(w).hi) \o Zeros(9 - NumDigits(DecNeg(w).lo))
                                  \o str(DecNeg(w).lo))
    ELSE IF w.hi = 0 THEN str(w.lo)
    ELSE str(w.hi) \o Zeros(9 - NumDigits(w.lo)) \o str(w.lo)

\* a unit test passed by every positive amount
at_least_one(w, exp) == ~DecLess(w, DecPow(0))

\* watts >= threshold, threshold = 10^exp
at_least(w, exp) == ~DecLess(w, DecPow(exp))

RECURSIVE Pow2Mod(_, _)
\* 2^k mod m
Pow2Mod(k, m) == IF k = 0 THEN 1 % m ELSE (2 * Pow2Mod(k - 1, m)) % m

RECURSIVE FloorLog2(_, _)
\* the largest e >= 0 with den * 2^e <= num, for num >= den
FloorLog2(num, den) == IF 2 * den > num THEN 0 ELSE 1 + FloorLog2(num, 2 * den)

\* whether the double nearest to (2q+1) / (2 * 10^d) prints as q+1 rather than
\* q at d decimals: a representable tie goes to the even neighbour, any other
\* goes where the 53-bit rounding of the quotient left the double
tie_rounds_up(q, d) ==
    LET den == 2 * 10^d
        num == 2 * q + 1
        e == IF num < den THEN 0 ELSE FloorLog2(num, den)
        r == ((num % den) * Pow2Mod(52 - e, den)) % den
    IN IF r = 0 THEN q % 2 = 1 ELSE 2 * r > den

\* the fraction digits of a scaled integer, zero-padded to d places
FractionDigits(f, d) == Zeros(d - NumDigits(f)) \o str(f)

\* the digits of s / 10^d at d decimals
Decimal(s, d) ==
    IF d = 0 THEN str(s)
    ELSE str(s \div 10^d) \o "." \o FractionDigits(s % 10^d, d)

\* f"{watts / 10^exp:.{d}f}" for watts below 16 * 10^15, where the double
\* watts / 10^exp lies on the same side of every d-decimal tie as the exact
\* quotient: the quotient rounded to d decimals, an exact tie going where the
\* double of the tie lies
fixed(w, exp, d) ==
    IF exp <= d THEN Decimal(w.lo * 10^(d - exp), d)
    ELSE LET q == DecDiv(w, exp - d)
             rem == DecMod(w, exp - d)
             half == Dec(DecPow((exp - d) - 1).hi * 5, DecPow((exp - d) - 1).lo * 5)
             up == IF DecLess(rem, half) THEN FALSE
                   ELSE IF DecLess(half, rem) THEN TRUE
                   ELSE tie_rounds_up(q, d)
         IN Decimal(IF up THEN q + 1 ELSE q, d)

\* the precision chosen with value >= 100 taken as value > 100
decimals_of_strict(w, exp) ==
    IF DecLess(Dec(DecPow(exp).hi * 100, DecPow(exp).lo * 100), w) THEN 0
    ELSE IF DecLess(Dec(DecPow(exp).hi * 10, DecPow(exp).lo * 10), w) THEN 1
    ELSE 2

\* value >= 100: 0 decimals; value >= 10: 1 decimal; else 2 decimals
decimals_of(w, exp) ==
    IF DecDiv(w, exp) >= 100 THEN 0 ELSE IF DecDiv(w, exp) >= 10 THEN 1 ELSE 2

RECURSIVE format_from(_, _)
\* the for loop over units from index i on
format_from(w, i) ==
    IF i > Len(Units) THEN DecStr(w) \o " W"
    ELSE IF at_least(w, Units[i].exp)
         THEN fixed(w, Units[i].exp, decimals_of(w, Units[i].exp))
              \o " " \o Units[i].unit
         ELSE format_from(w, i + 1)

\* format_generation_capacity on the limbs of watts
format_watts(w) == format_from(w, 1)

\* format_generation_capacity on a machine integer
format_generation_capacity(watts) == format_watts(DecOf(watts))

----------------------------------------------------------------------------
(* SpecSeed: a seed key is packed from four fields and decoded again.      *)

SeedInputs ==
    [seed : (0 - 1)..MaxSeed,
     stars : {0, 1, 64, 999, 1000, 1001},
     mult : {0, 5, 10, 98, 99, 100},
     diff : {0, 5, 99, 100, 105, 109, 110, 150, 199, 200, 999, 1000}]

InitSeed ==
    /\ data = <<>>
    /\ pos = 0
    /\ pos0 = 0
    /\ op = "new"
    /\ arg \in SeedInputs
    /\ status = "none"
    /\ ret = <<>>
    /\ files = NoFiles
    /\ ClusterIdle
    /\ DigestIdle
    /\ LoggedOut

\* cluster_player_downloader.py line 60: the key is packed from the inputs
EncodeSeedKey ==
    /\ op = "new"
    /\ op' = "encode_seed_key"
    /\ status' = "ok"
    /\ ret' = encode_seed_key(arg.seed, arg.stars, arg.mult, arg.diff)
    /\ UNCHANGED <<data, pos, pos0, arg, files>>
    /\ UNCHANGED cluster_vars
    /\ UNCHANGED digest_vars
    /\ UNCHANGED login_vars

\* decode_seed_key(key): ret keeps the key passed and the tuple returned
DecodeSeedKey ==
    /\ op = "encode_seed_key"
    /\ op' = "decode_seed_key"
    /\ status' = "ok"
    /\ ret' = [key |-> ret, out |-> decode_seed_key(ret)]
    /\ UNCHANGED <<data, pos, pos0, arg, files>>
    /\ UNCHANGED cluster_vars
    /\ UNCHANGED digest_vars
    /\ UNCHANGED login_vars

\* int(s) of a string of decimal digits without leading zeros: the n with
\* str(n) = s; ValueError for any other string met here
int(s) ==
    IF \E n \in 0..MaxParsed : str(n) = s
    THEN [st |-> "ok", val |-> CHOOSE n \in 0..MaxParsed : str(n) = s]
    ELSE [st |-> "ValueError", val |-> 0]

\* the inverse without the rule for one-character strings
combat_difficulty_to_raw_plain(diff_str) ==
    IF diff_str = PeaceMode THEN [st |-> "ok", val |-> 0]
    ELSE int("1" \o diff_str)

\* generate_pie_chart.py: the raw difficulty rebuilt from its display string
combat_difficulty_to_raw(diff_str) ==
    IF diff_str = PeaceMode THEN [st |-> "ok", val |-> 0]
    ELSE IF Len(diff_str) = 1 THEN int("10" \o diff_str)
    ELSE int("1" \o diff_str)

\* combat_difficulty_to_raw on the difficulty a key was decoded to
CombatDifficultyToRaw ==
    /\ op = "decode_seed_key"
    /\ op' = "combat_difficulty_to_raw"
    /\ \E r \in {combat_difficulty_to_raw(ret.out[4])} :
         /\ status' = r.st
         /\ ret' = [key |-> ret.key, display |-> ret.out[4], raw |-> r.val]
    /\ UNCHANGED <<data, pos, pos0, arg, files>>
    /\ UNCHANGED cluster_vars
    /\ UNCHANGED digest_vars
    /\ UNCHANGED login_vars

NextSeed == EncodeSeedKey \/ DecodeSeedKey \/ CombatDifficultyToRaw

SpecSeed == InitSeed /\ [][NextSeed]_vars

\* C5 as stated: for mult_raw in [0,99] and diff_raw in [0,199], and stars of
\* any size, decode_seed_key returns the packed seed and stars.
C5_SeedStarsAnyStars ==
    (/\ op = "decode_seed_key"
     /\ arg.mult \in 0..99
     /\ arg.diff \in 0..199)
    => (ret.out[1] = arg.seed /\ ret.out[2] = arg.stars)

\* C5 (amended): for stars in [0,999], mult_raw in [0,99] and diff_raw in
\* [0,199], decode_seed_key returns the packed seed and stars.
C5_SeedStarsRoundTrip ==
    (/\ op = "decode_seed_key"
     /\ arg.stars \in 0..999
     /\ arg.mult \in 0..99
     /\ arg.diff \in 0..199)
    => (ret.out[1] = arg.seed /\ ret.out[2] = arg.stars)

\* a key with a three-digit star count and a non-zero seed was decoded
C5_Witness ==
    /\ op = "decode_seed_key"
    /\ arg.seed = MaxSeed
    /\ arg.stars = 999
    /\ arg.mult = 99
    /\ arg.diff = 199
    /\ ret.out[1] = MaxSeed
    /\ ret.out[2] = 999

\* C6: for seed >= 0, stars in [0,999], mult_raw in [0,99], diff_raw in
\* [0,999], the four positional formulas of decode_seed_key applied to the
\* packed key give back (seed, stars, mult_raw, diff_raw).
C6_RawFieldsRoundTrip ==
    (/\ op = "decode_seed_key"
     /\ arg.seed >= 0
     /\ arg.stars \in 0..999
     /\ arg.mult \in 0..99
     /\ arg.diff \in 0..999)
    => /\ seed_of_key(ret.key) = arg.seed
       /\ stars_of_key(ret.key) = arg.stars
       /\ mult_raw_of_key(ret.key) = arg.mult
       /\ diff_raw_of_key(ret.key) = arg.diff
       /\ ret.out = <<arg.seed, arg.stars, resource_multiplier(arg.mult),
                      combat_mode_difficulty_number(arg.diff)>>

\* a key whose every field is at the top of its range was decoded
C6_Witness ==
    /\ op = "decode_seed_key"
    /\ arg = [seed |-> MaxSeed, stars |-> 999, mult |-> 98, diff |-> 999]
    /\ ret.key = MaxSeed * 100000000 + 99998999
    /\ ret.out = <<MaxSeed, 999, "9.8", "99">>

----------------------------------------------------------------------------
(* bytes.decode("utf-8", errors="replace"): the name as code points, each  *)
(* ill-formed subsequence replaced by U+FFFD.                              *)

Replacement == 65533

IsCont(b) == b >= 128 /\ b <= 191

\* the range the second byte of a sequence led by b must lie in
SecondLow(b) == IF b = 224 THEN 160 ELSE IF b = 240 THEN 144 ELSE 128
SecondHigh(b) == IF b = 237 THEN 159 ELSE IF b = 244 THEN 143 ELSE 191

\* the number of continuation bytes lead byte b asks for, 0 for ASCII, -1 for
\* a byte that cannot start a sequence
Need(b) ==
    IF b < 128 THEN 0
    ELSE IF b >= 194 /\ b <= 223 THEN 1
    ELSE IF b >= 224 /\ b <= 239 THEN 2
    ELSE IF b >= 240 /\ b <= 244 THEN 3
    ELSE 0 - 1

\* the well-formed continuation bytes that follow the lead byte at i
ValidTail(bytes, i) ==
    LET b == bytes[i]
        ok(k) == /\ i + k <= Len(bytes)
                 /\ IF k = 1
                    THEN bytes[i + 1] >= SecondLow(b) /\ bytes[i + 1] <= SecondHigh(b)
                    ELSE IsCont(bytes[i + k])
    IN IF ~ok(1) THEN 0
       ELSE IF Need(b) = 1 \/ ~ok(2) THEN 1
       ELSE IF Need(b) = 2 \/ ~ok(3) THEN 2
       ELSE 3

CodePoint(bytes, i) ==
    LET b == bytes[i]
        low(k) == bytes[i + k] % 64
    IN IF Need(b) = 1 THEN ((b % 32) * 64) + low(1)
       ELSE IF Need(b) = 2
       THEN ((b % 16) * 4096) + (low(1) * 64) + low(2)
       ELSE ((b % 8) * 262144) + (low(1) * 4096) + (low(2) * 64) + low(3)

RECURSIVE utf8_from(_, _)
utf8_from(bytes, i) ==
    IF i > Len(bytes) THEN <<>>
    ELSE LET b == bytes[i]
         IN IF Need(b) = 0 THEN <<b>> \o utf8_from(bytes, i + 1)
            ELSE IF Need(b) < 0 THEN <<Replacement>> \o utf8_from(bytes, i + 1)
            ELSE IF ValidTail(bytes, i) = Need(b)
            THEN <<CodePoint(bytes, i)>> \o utf8_from(bytes, i + 1 + Need(b))
            ELSE <<Replacement>> \o utf8_from(bytes, i + 1 + ValidTail(bytes, i))

decode_utf8_replace(bytes) == utf8_from(bytes, 1)

----------------------------------------------------------------------------
(* The per-record layout shared by the top-ten, user-data and cluster-page *)
(* decoders, and the loops that read the announced records.                *)

\* models.py: PlayerData built from the wire fields
PlayerData(seed_key, user_id, platform, name, gen_cap, is_anon) ==
    LET k == decode_seed_key(seed_key)
    IN [seed |-> k[1],
        stars |-> k[2],
        resource_multiplier |-> k[3],
        combat_difficulty |-> k[4],
        user_id |-> user_id,
        platform |-> platform_name(platform),
        account_name |-> name,
        generation_capacity |-> format_generation_capacity(gen_cap * 60),
        is_anonymous |-> is_anon > 0]

\* a reader call followed by the rest of the function: an exception raised by
\* the call leaves the function, otherwise the rest runs on the call's result
Then(call, rest(_)) ==
    CHOOSE out \in {IF r.st # "ok" THEN r ELSE rest(r) : r \in {call}} : TRUE

\* the same inside a method that has written the files fs so far
ThenWith(call, fs, rest(_)) ==
    CHOOSE out \in {IF r.st # "ok" THEN [r |-> r, files |-> fs] ELSE rest(r) : r \in {call}} : TRUE

\* the loop body with a strict decoder: a name that is not well-formed UTF-8
\* raises UnicodeDecodeError
parse_player_strict(buf, p) ==
    Then(i64(buf, p), LAMBDA seed_key :
    Then(i64(buf, seed_key.pos), LAMBDA user_id :
    Then(u8(buf, user_id.pos), LAMBDA platform :
    Then(read7bit_encoded_int(buf, platform.pos), LAMBDA name_len :
    Then(read(buf, name_len.pos, AsCount(name_len.val)), LAMBDA name_bytes :
    Then(IF \E k \in 1..Len(decode_utf8_replace(name_bytes.val)) :
               decode_utf8_replace(name_bytes.val)[k] = Replacement
         THEN Result("UnicodeDecodeError", <<>>, name_bytes.pos)
         ELSE i64(buf, name_bytes.pos), LAMBDA gen_cap :
    Then(u8(buf, gen_cap.pos), LAMBDA is_anon :
    Result("ok",
           PlayerData(seed_key.val, user_id.val, platform.val,
                      decode_utf8_replace(name_bytes.val), gen_cap.val, is_anon.val),
           is_anon.pos))))))))

\* one loop body: seed_key, user_id, platform, name, gen_cap, is_anon
parse_player(buf, p) ==
    Then(i64(buf, p), LAMBDA seed_key :
    Then(i64(buf, seed_key.pos), LAMBDA user_id :
    Then(u8(buf, user_id.pos), LAMBDA platform :
    Then(read7bit_encoded_int(buf, platform.pos), LAMBDA name_len :
    Then(read(buf, name_len.pos, AsCount(name_len.val)), LAMBDA name_bytes :
    Then(i64(buf, name_bytes.pos), LAMBDA gen_cap :
    Then(u8(buf, gen_cap.pos), LAMBDA is_anon :
    Result("ok",
           PlayerData(seed_key.val, user_id.val, platform.val,
                      decode_utf8_replace(name_bytes.val), gen_cap.val, is_anon.val),
           is_anon.pos))))))))

\* a loop that swallows the exception and keeps the records read so far
raise_keeps_partial(players, r) == Result("ok", players, r.pos)

\* an exception raised inside the loop leaves the decoder: the list built so
\* far is local and goes with it
raise(players, r) == Result(r.st, <<>>, r.pos)

RECURSIVE parse_players(_, _, _, _)
\* for _ in range(count): ... players.append(player)
parse_players(buf, p, count, players) ==
    IF count <= 0 THEN Result("ok", players, p)
    ELSE CHOOSE out \in
           {IF r.st # "ok" THEN raise(players, r)
            ELSE parse_players(buf, r.pos, count - 1, Append(players, r.val))
              : r \in {parse_player(buf, p)}} : TRUE

\* str(bool)
str_bool(b) == IF b THEN "True" ELSE "False"

PlayerHeader ==
    <<"U+79CD U+5B50", "U+661F U+6570", "U+8D44 U+6E90 U+500D U+7387",
      "U+6218 U+6597 U+96BE U+5EA6", "U+7528 U+6237ID", "U+5E73 U+53F0",
      "U+8D26 U+53F7", "U+53D1 U+7535 U+91CF", "U+533F U+540D">>

PlayerRow(player) ==
    <<str(player.seed), str(player.stars), player.resource_multiplier,
      player.combat_difficulty, str(player.user_id), player.platform,
      player.account_name, player.generation_capacity,
      str_bool(player.is_anonymous)>>

\* the rows csv.writer writes for a list of players
PlayerRows(players) ==
    <<PlayerHeader>> \o [i \in 1..Len(players) |-> PlayerRow(players[i])]

\* open(path, "w") and write: the file holds exactly these rows afterwards
Written(fs, name, rows) ==
    [n \in DOMAIN fs \cup {name} |-> IF n = name THEN rows ELSE fs[n]]

\* UserDataDownloader._parse_user_data
parse_user_data(buf) ==
    Then(i32(buf, 0), LAMBDA header :
    Then(i32(buf, header.pos), LAMBDA num_players :
    parse_players(buf, num_players.pos, num_players.val, <<>>)))

\* the page decoder without the cap on the record count
page_count_uncapped(num_records) == num_records

\* the literal 10 of min(num_records, 10)
MaxPageRecords == 10

\* min(num_records, 10)
page_count(num_records) ==
    IF num_records < MaxPageRecords THEN num_records ELSE MaxPageRecords

\* ClusterPlayerDownloader._parse_cluster_page
parse_cluster_page(buf) ==
    Then(i32(buf, 0), LAMBDA header :
    Then(i64(buf, header.pos), LAMBDA total_count :
    Then(i32(buf, total_count.pos), LAMBDA current_page :
    Then(i32(buf, current_page.pos), LAMBDA num_records :
    Then(parse_players(buf, num_records.pos, page_count(num_records.val), <<>>), LAMBDA r :
    Result("ok",
           [players |-> r.val,
            total_count |-> total_count.val,
            page_index |-> current_page.val],
           r.pos))))))

\* FullDataDownloader._load_top_ten_player_data on reader (buf, p) with the
\* files fs: the result carries the files after the call
load_top_ten_player_data(buf, p, fs) ==
    ThenWith(u32(buf, p), fs, LAMBDA tag :
    ThenWith(i32(buf, tag.pos), fs, LAMBDA num :
    ThenWith(parse_players(buf, num.pos, num.val, <<>>), fs, LAMBDA r :
    [r |-> Result("ok", <<>>, r.pos),
     files |-> Written(fs, "top_ten.csv", PlayerRows(r.val))])))

----------------------------------------------------------------------------
(* downloader.py: the summary block and the per-seed block.                *)

\* struct.unpack("<f"): an IEEE-754 single as sign, significand and binary
\* exponent (value = m * 2^e), or an infinity or a NaN
f32(buf, p) ==
    LET r == read(buf, p, 4)
    IN IF r.st # "ok" THEN r ELSE
       LET neg == r.val[4] >= 128
           ex == ((r.val[4] % 128) * 2) + (r.val[3] \div 128)
           frac == ((r.val[3] % 128) * 65536) + (r.val[2] * 256) + r.val[1]
       IN Result("ok",
                 IF ex = 255
                 THEN [kind |-> IF frac = 0 THEN "inf" ELSE "nan", neg |-> neg, m |-> 0, e |-> 0]
                 ELSE IF ex = 0
                 THEN [kind |-> "finite", neg |-> neg, m |-> frac, e |-> 0 - 149]
                 ELSE [kind |-> "finite", neg |-> neg, m |-> 8388608 + frac, e |-> ex - 150],
                 r.pos)

\* int(gen_cap * 60): the product is exact in a double, int() truncates toward
\* zero and raises on a NaN or an infinity
int_times_60(f) ==
    IF f.kind = "nan" THEN [st |-> "ValueError", val |-> 0]
    ELSE IF f.kind = "inf" THEN [st |-> "OverflowError", val |-> 0]
    ELSE LET mag == IF f.e >= 0 THEN (f.m * 60) * 2^f.e
                    ELSE IF f.e <= 0 - 31 THEN 0
                    ELSE (f.m * 60) \div 2^(0 - f.e)
         IN [st |-> "ok", val |-> IF f.neg THEN 0 - mag ELSE mag]

\* models.py: SeedData built from the wire fields
SeedData(seed_key, watts, player_num) ==
    LET k == decode_seed_key(seed_key)
    IN [seed |-> k[1],
        stars |-> k[2],
        resource_multiplier |-> k[3],
        combat_difficulty |-> k[4],
        player_count |-> player_num,
        total_generation_capacity |-> format_generation_capacity(watts)]

\* the per-seed record read without its trailing word
skip_trailing_none(buf, p) == Result("ok", WideZero, p)

\* _ = r.u32() after each per-seed entry
skip_trailing(buf, p) == u32(buf, p)

\* one per-seed loop body: seed_key, gen_cap, player_num, then the extra u32
parse_seed(buf, p) ==
    Then(i64(buf, p), LAMBDA seed_key :
    Then(f32(buf, seed_key.pos), LAMBDA gen_cap :
    Then(i32(buf, gen_cap.pos), LAMBDA player_num :
    LET watts == int_times_60(gen_cap.val)
    IN IF watts.st # "ok" THEN Result(watts.st, <<>>, player_num.pos) ELSE
    Then(skip_trailing(buf, player_num.pos), LAMBDA extra :
    Result("ok", SeedData(seed_key.val, watts.val, player_num.val), extra.pos)))))

RECURSIVE parse_seeds(_, _, _, _)
\* for _ in range(num): ... seeds.append(seed_data)
parse_seeds(buf, p, count, seeds) ==
    IF count <= 0 THEN Result("ok", seeds, p)
    ELSE CHOOSE out \in
           {IF r.st # "ok" THEN raise(seeds, r)
            ELSE parse_seeds(buf, r.pos, count - 1, Append(seeds, r.val))
              : r \in {parse_seed(buf, p)}} : TRUE

\* _save_summary: the four lines of summary.txt
SummaryRows(total_player, watts, total_sail_launched, total_dyson_sphere) ==
    <<"U+603B U+73A9 U+5BB6 U+6570: " \o str(total_player),
      "U+603B U+53D1 U+7535 U+91CF: " \o format_generation_capacity(watts),
      "U+603B U+592A U+9633 U+5E06 U+6570: " \o str(total_sail_launched),
      "U+603B U+6234 U+68EE U+7403 U+6570: " \o str(total_dyson_sphere)>>

SeedHeader ==
    <<"U+79CD U+5B50", "U+661F U+6570", "U+8D44 U+6E90 U+500D U+7387",
      "U+6218 U+6597 U+96BE U+5EA6", "U+7528 U+6237 U+6570",
      "U+603B U+53D1 U+7535 U+91CF">>

SeedRow(seed) ==
    <<str(seed.seed), str(seed.stars), seed.resource_multiplier,
      seed.combat_difficulty, str(seed.player_count),
      seed.total_generation_capacity>>

\* _save_all_csv
SeedRows(seeds) == <<SeedHeader>> \o [i \in 1..Len(seeds) |-> SeedRow(seeds[i])]

\* the files after self._save_summary(summary)
AfterSummary(fs, total_player, total_gen_cap, total_sail_launched, total_dyson_sphere) ==
    Written(fs, "summary.txt",
            SummaryRows(total_player, total_gen_cap * 60,
                        total_sail_launched, total_dyson_sphere))

\* FullDataDownloader._load_other_data on reader (buf, p) with the files fs
load_other_data(buf, p, fs) ==
    ThenWith(u32(buf, p), fs, LAMBDA tag :
    ThenWith(i64(buf, tag.pos), fs, LAMBDA total_gen_cap :
    ThenWith(i64(buf, total_gen_cap.pos), fs, LAMBDA total_sail_launched :
    ThenWith(i32(buf, total_sail_launched.pos), fs, LAMBDA total_player :
    ThenWith(i32(buf, total_player.pos), fs, LAMBDA total_dyson_sphere :
    LET fs1 == AfterSummary(fs, total_player.val, total_gen_cap.val,
                            total_sail_launched.val, total_dyson_sphere.val)
    IN
    ThenWith(u32(buf, total_dyson_sphere.pos), fs1, LAMBDA tag2 :
    ThenWith(i32(buf, tag2.pos), fs1, LAMBDA num :
    ThenWith(parse_seeds(buf, num.pos, num.val, <<>>), fs1, LAMBDA r :
    [r |-> Result("ok", <<>>, r.pos),
     files |-> Written(fs1, "all.csv", SeedRows(r.val))]))))))))

\* FullDataDownloader.parse_full_data on an existing file: the header word, the
\* top-ten block, then the summary and per-seed blocks; any exception is
\* raised again as RuntimeError
parse_full_data(buf, fs) ==
    ThenWith(u32(buf, 0), fs, LAMBDA header :
    CHOOSE out \in
      {IF top.r.st # "ok" THEN top ELSE load_other_data(buf, top.r.pos, top.files)
         : top \in {load_top_ten_player_data(buf, header.pos, fs)}} : TRUE)

----------------------------------------------------------------------------
(* SpecDecode: a decoder is handed a buffer that a producer wrote for it   *)
(* and that was cut after any number of bytes (or not cut at all).         *)

RECURSIVE LEBytes(_, _)
\* the n-byte little-endian two's-complement encoding of v
LEBytes(v, n) == IF n = 0 THEN <<>> ELSE <<v % 256>> \o LEBytes(v \div 256, n - 1)

\* four wire records: ASCII, multi-byte, ill-formed and empty names, every
\* platform branch, both anonymity values
WirePlayers ==
    <<[seed_key |-> 106410000, user_id |-> 7, platform |-> 1,
       name |-> <<97, 98>>, ticks |-> 25000, anon |-> 0],
      [seed_key |-> 203299105, user_id |-> 300, platform |-> 3,
       name |-> <<228, 184, 173>>, ticks |-> 16, anon |-> 1],
      [seed_key |-> 5, user_id |-> 0 - 1, platform |-> 0,
       name |-> <<255>>, ticks |-> 0, anon |-> 2],
      [seed_key |-> 700100000, user_id |-> 12345, platform |-> 2,
       name |-> <<>>, ticks |-> 2000000, anon |-> 255]>>

WirePlayer(i) == WirePlayers[((i - 1) % Len(WirePlayers)) + 1]

EncodePlayer(w) ==
    LEBytes(w.seed_key, 8) \o LEBytes(w.user_id, 8) \o <<w.platform>>
    \o encode_varint(Wide(0, Len(w.name))) \o w.name
    \o LEBytes(w.ticks, 8) \o <<w.anon>>

RECURSIVE EncodePlayers(_, _)
\* the wire records i .. n in order
EncodePlayers(i, n) ==
    IF i > n THEN <<>> ELSE EncodePlayer(WirePlayer(i)) \o EncodePlayers(i + 1, n)

\* a flat user-data buffer announcing count records and holding k of them
UserDataBuffer(count, k) == LEBytes(1, 4) \o LEBytes(count, 4) \o EncodePlayers(1, k)

\* a cluster page announcing count records and holding k of them
ClusterBuffer(count, k) ==
    LEBytes(1, 4) \o LEBytes(count, 8) \o LEBytes(0, 4) \o LEBytes(count, 4)
    \o EncodePlayers(1, k)

\* a top-ten block announcing count records and holding k of them
TopTenBuffer(count, k) == LEBytes(2, 4) \o LEBytes(count, 4) \o EncodePlayers(1, k)

\* the per-seed wire records: seed key, an f32 (1000.0, 0.5, a NaN), players
WireSeeds ==
    <<[seed_key |-> 106410000, cap |-> <<0, 0, 122, 68>>, players |-> 12],
      [seed_key |-> 203299105, cap |-> <<0, 0, 0, 63>>, players |-> 1],
      [seed_key |-> 5, cap |-> <<0, 0, 192, 127>>, players |-> 0]>>

WireSeed(i) == WireSeeds[((i - 1) % Len(WireSeeds)) + 1]

RECURSIVE EncodeSeeds(_, _)
EncodeSeeds(i, n) ==
    IF i > n THEN <<>>
    ELSE LEBytes(WireSeed(i).seed_key, 8) \o WireSeed(i).cap
         \o LEBytes(WireSeed(i).players, 4) \o LEBytes(0, 4) \o EncodeSeeds(i + 1, n)

SummaryBlock ==
    LEBytes(3, 4) \o LEBytes(25000, 8) \o LEBytes(123, 8) \o LEBytes(45, 4) \o LEBytes(6, 4)

\* a full-data file: header word, top-ten block, summary block, per-seed block
FullDataBuffer(n1, n2) ==
    LEBytes(1, 4) \o TopTenBuffer(n1, n1) \o SummaryBlock
    \o LEBytes(4, 4) \o LEBytes(n2, 4) \o EncodeSeeds(1, n2)

Announced(count) == IF count < 0 THEN 0 ELSE count

\* what the producer wrote for input a
ProducedBuffer(a) ==
    IF a.kind = "user_data" THEN UserDataBuffer(a.count, Announced(a.count))
    ELSE IF a.kind = "cluster" THEN ClusterBuffer(a.count, Announced(a.count))
    ELSE IF a.kind = "top_ten" THEN TopTenBuffer(a.count, Announced(a.count))
    ELSE FullDataBuffer(a.count, a.seeds)

DecodeInputs ==
    [kind : {"user_data", "cluster", "top_ten"}, count : (0 - 1)..MaxRecords, seeds : {0}]
    \cup [kind : {"full"}, count : 0..MaxBlock, seeds : 0..(MaxBlock + 1)]

InitDecode ==
    /\ arg \in DecodeInputs
    /\ \E cut \in 0..Len(ProducedBuffer(arg)) : data = SubSeq(ProducedBuffer(arg), 1, cut)
    /\ pos = 0
    /\ pos0 = 0
    /\ op = "new"
    /\ status = "none"
    /\ ret = <<>>
    /\ files = NoFiles
    /\ ClusterIdle
    /\ DigestIdle
    /\ LoggedOut

\* _parse_user_data(data)
ParseUserData ==
    /\ op = "new"
    /\ arg.kind = "user_data"
    /\ LET r == parse_user_data(data)
       IN /\ op' = "_parse_user_data"
          /\ status' = r.st
          /\ ret' = r.val
          /\ pos' = r.pos
    /\ UNCHANGED <<data, pos0, arg, files>>
    /\ UNCHANGED cluster_vars
    /\ UNCHANGED digest_vars
    /\ UNCHANGED login_vars

\* download_and_parse_user_data: fetch, parse, save the CSV, return the list;
\* any exception is raised again as RuntimeError
DownloadAndParseUserData ==
    /\ op = "new"
    /\ arg.kind = "user_data"
    /\ op' = "download_and_parse_user_data"
    /\ \E fetched \in BOOLEAN :
         LET r == parse_user_data(data)
         IN IF ~fetched
            THEN /\ status' = "RuntimeError"
                 /\ ret' = [cause |-> "HTTPError"]
                 /\ UNCHANGED <<pos, files>>
            ELSE IF r.st # "ok"
            THEN /\ status' = "RuntimeError"
                 /\ ret' = [cause |-> r.st]
                 /\ pos' = r.pos
                 /\ UNCHANGED files
            ELSE /\ status' = "ok"
                 /\ ret' = r.val
                 /\ pos' = r.pos
                 /\ files' = Written(files, "user_data.csv", PlayerRows(r.val))
    /\ UNCHANGED <<data, pos0, arg>>
    /\ UNCHANGED cluster_vars
    /\ UNCHANGED digest_vars
    /\ UNCHANGED login_vars

\* _parse_cluster_page(data)
ParseClusterPage ==
    /\ op = "new"
    /\ arg.kind = "cluster"
    /\ LET r == parse_cluster_page(data)
       IN /\ op' = "_parse_cluster_page"
          /\ status' = r.st
          /\ ret' = r.val
          /\ pos' = r.pos
    /\ UNCHANGED <<data, pos0, arg, files>>
    /\ UNCHANGED cluster_vars
    /\ UNCHANGED digest_vars
    /\ UNCHANGED login_vars

\* _load_top_ten_player_data(r) on a reader at the start of the block
LoadTopTenPlayerData ==
    /\ op = "new"
    /\ arg.kind = "top_ten"
    /\ LET t == load_top_ten_player_data(data, pos, files)
       IN /\ op' = "_load_top_ten_player_data"
          /\ status' = t.r.st
          /\ ret' = t.r.val
          /\ pos' = t.r.pos
          /\ files' = t.files
    /\ UNCHANGED <<data, pos0, arg>>
    /\ UNCHANGED cluster_vars
    /\ UNCHANGED digest_vars
    /\ UNCHANGED login_vars

\* parse_full_data(filename): a missing file raises FileNotFoundError, any
\* other exception is raised again as RuntimeError
ParseFullData ==
    /\ op = "new"
    /\ arg.kind = "full"
    /\ op' = "parse_full_data"
    /\ \E found \in BOOLEAN :
         LET t == parse_full_data(data, files)
         IN IF ~found
            THEN /\ status' = "FileNotFoundError"
                 /\ ret' = <<>>
                 /\ UNCHANGED <<pos, files>>
            ELSE /\ status' = IF t.r.st = "ok" THEN "ok" ELSE "RuntimeError"
                 /\ ret' = IF t.r.st = "ok" THEN <<>> ELSE [cause |-> t.r.st]
                 /\ pos' = t.r.pos
                 /\ files' = t.files
    /\ UNCHANGED <<data, pos0, arg>>
    /\ UNCHANGED cluster_vars
    /\ UNCHANGED digest_vars
    /\ UNCHANGED login_vars

NextDecode ==
    \/ ParseUserData
    \/ DownloadAndParseUserData
    \/ ParseClusterPage
    \/ LoadTopTenPlayerData
    \/ ParseFullData

SpecDecode == InitDecode /\ [][NextDecode]_vars

\* the buffer ends inside the header or inside one of the first k records
CutWithin(k) ==
    Len(data) < Len(ProducedBuffer([arg EXCEPT !.count = k]))

\* what holds of the flat and top-ten decoders on a buffer cut inside the
\* header or an announced record
C7_FlatDecoders ==
    /\ (op = "_parse_user_data" /\ arg.kind = "user_data" /\ CutWithin(arg.count))
       => (status = "EOFError" /\ ret = <<>> /\ files = NoFiles)
    /\ (op = "download_and_parse_user_data" /\ arg.kind = "user_data"
        /\ CutWithin(arg.count) /\ ret # [cause |-> "HTTPError"])
       => (status = "RuntimeError" /\ ret = [cause |-> "EOFError"] /\ files = NoFiles)
    /\ (op = "_load_top_ten_player_data" /\ arg.kind = "top_ten" /\ CutWithin(arg.count))
       => (status = "EOFError" /\ ret = <<>> /\ files = NoFiles)

\* C7 as stated: a buffer that ends inside the header or inside any announced
\* record makes each of the three decoders fail with EOFError, and no record
\* list is returned or written.
C7_TruncatedAnnounced ==
    /\ C7_FlatDecoders
    /\ (op = "_parse_cluster_page" /\ arg.kind = "cluster" /\ CutWithin(arg.count))
       => (status = "EOFError" /\ ret = <<>> /\ files = NoFiles)

\* C7 (amended): the same for a buffer that ends inside the header or inside a
\* record the decoder reads: every announced record, and for
\* _parse_cluster_page the first min(count, 10) of them.
C7_TruncatedDecoded ==
    /\ C7_FlatDecoders
    /\ (op = "_parse_cluster_page" /\ arg.kind = "cluster"
        /\ CutWithin(page_count(arg.count)))
       => (status = "EOFError" /\ ret = <<>> /\ files = NoFiles)

\* a flat buffer announcing three records was cut inside the third one, after
\* two records had been decoded, and nothing came back
C7_Witness ==
    /\ op = "_parse_user_data"
    /\ arg.kind = "user_data"
    /\ arg.count = 3
    /\ Len(data) > Len(UserDataBuffer(3, 2))
    /\ Len(data) < Len(UserDataBuffer(3, 3))
    /\ status = "EOFError"
    /\ ret = <<>>

\* C8: when parse_full_data fails while decoding, none of top_ten.csv,
\* summary.txt, all.csv has been written by the call.
C8_NoPartialOutputs ==
    (op = "parse_full_data" /\ status = "RuntimeError") => files = NoFiles

----------------------------------------------------------------------------
(* SpecCluster: download_and_parse_cluster_players, one step per delay and *)
(* per page fetch. The server answers each request with a page of its own  *)
(* choosing, with a cut page, or not at all.                               *)

\* page_size = 10
PageSize == 10

\* the request of one page (config.get_cluster_user_page_url)
page_request(seed_key, index) ==
    [seed_key |-> seed_key, page_index |-> index, page_size |-> PageSize]

\* a loop that pauses only from the third page on
needs_delay_late(index) == index > 1

\* if page_index > 0: time.sleep(0.5)
needs_delay(index) == index > 0

\* a loop that never takes a short page as the last one
page_is_last_never(players) == FALSE

\* if len(players) < page_size: break
page_is_last(players) == Len(players) < PageSize

\* a loop without the page budget
in_budget_always(index, max_pages) == TRUE

\* for page_index in range(max_pages)
in_budget(index, max_pages) == index < max_pages

\* where the loop goes with the next value of page_index
loop_head(index, max_pages) ==
    IF ~in_budget(index, max_pages) THEN "save"
    ELSE IF needs_delay(index) THEN "delay"
    ELSE "fetch"

\* a page whose records start at wire record first
ClusterPage(first, count) ==
    LEBytes(1, 4) \o LEBytes(100, 8) \o LEBytes(0, 4) \o LEBytes(count, 4)
    \o EncodePlayers(first, first + count - 1)

\* what the server may answer: empty, short, full and over-full pages
ServerPages ==
    {ClusterPage(first, count) : first \in {1, 2}, count \in {0, 3, PageSize, PageSize + 1}}

\* a short page cut inside its second record
CutPage == SubSeq(ClusterPage(1, 3), 1, 60)

ClusterInputs == [seed : {1}, stars : {64}, resource_mult : {10}, combat_diff : {0},
                  max_pages : (0 - 1)..MaxPages]

InitCluster ==
    /\ data = <<>>
    /\ pos = 0
    /\ pos0 = 0
    /\ op = "new"
    /\ arg \in ClusterInputs
    /\ status = "none"
    /\ ret = <<>>
    /\ files = NoFiles
    /\ ClusterIdle
    /\ DigestIdle
    /\ LoggedOut

\* the call up to the loop: the list is empty, the loop variable is 0
Call ==
    /\ pc = "idle"
    /\ op = "new"
    /\ op' = "download_and_parse_cluster_players"
    /\ all_players' = <<>>
    /\ page_index' = 0
    /\ pc' = loop_head(0, arg.max_pages)
    /\ UNCHANGED <<data, pos, pos0, arg, status, ret, files, events>>
    /\ UNCHANGED digest_vars
    /\ UNCHANGED login_vars

\* time.sleep(0.5) before the fetch of a page after the first
Delay ==
    /\ pc = "delay"
    /\ events' = Append(events, [kind |-> "delay"])
    /\ pc' = "fetch"
    /\ UNCHANGED <<data, pos, pos0, op, arg, status, ret, files, page_index, all_players>>
    /\ UNCHANGED digest_vars
    /\ UNCHANGED login_vars

\* one fetch event of the history
FetchEvent(index, yielded, players) ==
    [kind |-> "fetch",
     request |-> page_request(encode_seed_key(arg.seed, arg.stars, arg.resource_mult,
                                              arg.combat_diff), index),
     yielded |-> yielded,
     players |-> players]

\* http_get and the rest of the loop body: decode the page, extend the list,
\* leave the loop on a short page or go to the next page
FetchPage ==
    /\ pc = "fetch"
    /\ \E page \in ServerPages \cup {CutPage} :
         \E r \in {parse_cluster_page(page)} :
           /\ data' = page
           /\ pos' = r.pos
           /\ IF r.st # "ok"
              THEN /\ events' = Append(events, FetchEvent(page_index, 0 - 1, <<>>))
                   /\ status' = "RuntimeError"
                   /\ ret' = [cause |-> r.st]
                   /\ pc' = "done"
                   /\ UNCHANGED <<page_index, all_players>>
              ELSE /\ events' = Append(events,
                                       FetchEvent(page_index, Len(r.val.players), r.val.players))
                   /\ all_players' = all_players \o r.val.players
                   /\ IF page_is_last(r.val.players)
                      THEN /\ pc' = "save"
                           /\ UNCHANGED page_index
                      ELSE /\ pc' = loop_head(page_index + 1, arg.max_pages)
                           /\ page_index' = page_index + 1
                   /\ UNCHANGED <<status, ret>>
    /\ UNCHANGED <<pos0, op, arg, files>>
    /\ UNCHANGED digest_vars
    /\ UNCHANGED login_vars

\* http_get raises: the call ends with RuntimeError
FetchFails ==
    /\ pc = "fetch"
    /\ events' = Append(events, FetchEvent(page_index, 0 - 1, <<>>))
    /\ status' = "RuntimeError"
    /\ ret' = [cause |-> "HTTPError"]
    /\ pc' = "done"
    /\ UNCHANGED <<data, pos, pos0, op, arg, files, page_index, all_players>>
    /\ UNCHANGED digest_vars
    /\ UNCHANGED login_vars

\* after the loop: save the CSV and return the list
Save ==
    /\ pc = "save"
    /\ files' = Written(files, "cluster_players.csv", PlayerRows(all_players))
    /\ status' = "ok"
    /\ ret' = all_players
    /\ pc' = "done"
    /\ UNCHANGED <<data, pos, pos0, op, arg, page_index, all_players, events>>
    /\ UNCHANGED digest_vars
    /\ UNCHANGED login_vars

NextCluster ==
    \/ Call
    \/ Delay
    \/ FetchPage
    \/ FetchFails
    \/ Save

SpecCluster == InitCluster /\ [][NextCluster]_vars

IsFetch(e) == e.kind = "fetch"

\* the page fetches of the call so far, in order
Fetches == SelectSeq(events, IsFetch)

RECURSIVE Concatenation(_, _)
\* the records of the fetches i, i+1, ... one after the other
Concatenation(fs, i) ==
    IF i > Len(fs) THEN <<>> ELSE fs[i].players \o Concatenation(fs, i + 1)

\* what C9 says apart from the number of fetches: pages go 0, 1, 2, ...; page
\* k+1 is fetched only after page k yielded exactly 10 records and only if
\* k+1 < max_pages; a call that returns has either used its budget up or seen
\* a short page last, and returns the pages' records in page order
C9_Order ==
    /\ \A i \in 1..Len(Fetches) : Fetches[i].request.page_index = i - 1
    /\ \A i \in 2..Len(Fetches) :
         /\ Fetches[i - 1].yielded = PageSize
         /\ i - 1 < arg.max_pages
    /\ (pc = "done" /\ status = "ok")
       => /\ ret = Concatenation(Fetches, 1)
          /\ \/ ~(Len(Fetches) < arg.max_pages)
             \/ (Len(Fetches) > 0 /\ Fetches[Len(Fetches)].yielded < PageSize)

\* C9 as stated: pagination stops exactly when a page yields fewer than 10
\* records or the budget is exhausted; pages are fetched in increasing order,
\* page k+1 only after a full page k and within the budget; at most max_pages
\* fetches are performed; the result is the concatenation in page order.
C9_AtMostMaxPages ==
    /\ C9_Order
    /\ pc # "idle" => Len(Fetches) <= arg.max_pages

NonNegative(n) == IF n < 0 THEN 0 ELSE n

\* C9 (amended): the same with at most max(max_pages, 0) fetches: a negative
\* budget means no fetch at all.
C9_AtMostBudget ==
    /\ C9_Order
    /\ pc # "idle" => Len(Fetches) <= NonNegative(arg.max_pages)

\* a call with a budget of three pages got two full pages and then a short
\* one, and returned 23 records
C9_Witness ==
    /\ pc = "done"
    /\ status = "ok"
    /\ arg.max_pages = 3
    /\ Len(Fetches) = 3
    /\ Fetches[3].yielded = 3
    /\ Len(ret) = 23

\* C10: every fetch of a page after the first comes immediately after a delay
\* that itself follows the previous fetch, and no two fetches are adjacent.
C10_DelayBetweenFetches ==
    \A i \in 1..Len(events) :
        /\ (IsFetch(events[i]) /\ events[i].request.page_index > 0)
           => /\ i > 2
              /\ events[i - 1].kind = "delay"
              /\ IsFetch(events[i - 2])
        /\ (i > 1 /\ IsFetch(events[i])) => ~IsFetch(events[i - 1])

\* the second page of a call has been fetched
C10_Witness ==
    /\ Len(Fetches) >= 2
    /\ Fetches[2].request.page_index = 1
    /\ Len(events) >= 3

\* C28: when the fetch or the decode of page k fails after pages 0..k-1
\* succeeded, the call raises RuntimeError, returns none of the records
\* accumulated from the earlier pages, has written no cluster CSV, and takes
\* no further step: no further page is fetched.
C28_FailedPageEndsCall ==
    [][/\ status # "RuntimeError"
       /\ (pc = "fetch" /\ (data' = CutPage \/ Fetches'[Len(Fetches')].yielded < 0))
          => /\ status' = "RuntimeError"
             /\ pc' = "done"
             /\ ret' \in {[cause |-> c] : c \in {"EOFError", "HTTPError"}}
             /\ files' = NoFiles
             /\ Len(Fetches') = page_index + 1
             /\ \A i \in 1..page_index : Fetches'[i].yielded = PageSize]_vars

\* the third page came cut after two full pages: the call failed with twenty
\* records accumulated and wrote nothing
C28_Witness ==
    /\ pc = "done"
    /\ status = "RuntimeError"
    /\ data = CutPage
    /\ page_index = 2
    /\ Len(all_players) = 2 * PageSize
    /\ Len(Fetches) = 3
    /\ files = NoFiles

----------------------------------------------------------------------------
(* The record decoders on well-formed buffers.                             *)

\* the number of loop iterations of range(min(n, 10))
CappedAtTen(n) == IF n < 0 THEN 0 ELSE IF n < 10 THEN n ELSE 10

\* the buffer with its first four bytes replaced by those of another header
WithHeader(buf, header) == LEBytes(header, 4) \o SubSeq(buf, 5, Len(buf))

\* C11: the page decoder reads an ignored i32 header, total_count (i64),
\* page_index (i32) and the record count (i32), then decodes exactly
\* min(count, 10) records (none for a negative count): the records that start
\* at offset 20, and never more than 10.
C11_PageCap ==
    (op = "_parse_cluster_page" /\ arg.kind = "cluster" /\ status = "ok")
    => /\ Len(ret.players) <= 10
       /\ Len(ret.players) = CappedAtTen(arg.count)
       /\ ret.players = parse_players(data, 20, CappedAtTen(arg.count), <<>>).val
       /\ pos = Len(ClusterBuffer(arg.count, CappedAtTen(arg.count)))
       /\ ret.total_count = SignedLittleEndian(SubSeq(data, 5, 12))
       /\ ret.page_index = SignedLittleEndian(SubSeq(data, 13, 16))
       /\ arg.count = SignedLittleEndian(SubSeq(data, 17, 20))
       /\ parse_cluster_page(WithHeader(data, 0 - 7)).val = ret

\* a page announcing and holding eleven records was decoded: ten came back
C11_Witness ==
    /\ op = "_parse_cluster_page"
    /\ arg.kind = "cluster"
    /\ arg.count = 11
    /\ Len(data) = Len(ClusterBuffer(11, 11))
    /\ status = "ok"
    /\ Len(ret.players) = 10
    /\ pos < Len(data)

\* where the per-seed records of the file start: after the block's count field
SeedBase == Len(FullDataBuffer(arg.count, 0))

\* the record decoded from the 20 bytes at offset off: i64, f32, i32 and four
\* bytes that are not looked at
SeedAt(buf, off) ==
    SeedData(i64(buf, off).val,
             int_times_60(f32(buf, off + 8).val).val,
             i32(buf, off + 12).val)

\* C12: in the per-seed block every record takes exactly 20 bytes (i64 seed
\* key, f32 capacity, i32 player count, one ignored u32): record k (from 0) is
\* decoded from the 20 bytes at offset 20*k after the count field, and a file
\* that lacks the trailing u32 of its last record fails to decode.
C12_SeedStride ==
    (op = "parse_full_data" /\ arg.kind = "full" /\ status # "FileNotFoundError")
    => /\ status = "ok"
          => /\ pos = SeedBase + (20 * arg.seeds)
             /\ files["all.csv"] =
                  SeedRows([k \in 1..arg.seeds |-> SeedAt(data, SeedBase + (20 * (k - 1)))])
       /\ (/\ arg.seeds >= 1
           /\ Len(data) >= (SeedBase + (20 * arg.seeds)) - 4
           /\ Len(data) < SeedBase + (20 * arg.seeds))
          => /\ status = "RuntimeError"
             /\ "all.csv" \notin DOMAIN files
             /\ arg.seeds <= 2 => ret = [cause |-> "EOFError"]

\* a file with two per-seed records was decoded to the end and all.csv holds
\* the header and two rows
C12_Witness ==
    /\ op = "parse_full_data"
    /\ arg.kind = "full"
    /\ arg.seeds = 2
    /\ status = "ok"
    /\ pos = Len(data)
    /\ Len(files["all.csv"]) = 3

\* the name the claim gives to a platform byte
PlatformOf(b) ==
    CASE b = 1 -> "Steam" [] b = 2 -> "WeGame" [] b = 3 -> "XGP" [] OTHER -> "Standalone"

\* record i (from 1) carries the fields of wire record i
FromWire(player, i) ==
    /\ player.user_id = WirePlayer(i).user_id
    /\ player.platform = PlatformOf(WirePlayer(i).platform)
    /\ player.is_anonymous = (WirePlayer(i).anon > 0)
    /\ player.generation_capacity = format_generation_capacity(WirePlayer(i).ticks * 60)

\* CSV row i + 1 carries the fields of wire record i
RowFromWire(row, i) ==
    /\ row[5] = str(WirePlayer(i).user_id)
    /\ row[6] = PlatformOf(WirePlayer(i).platform)
    /\ row[9] = str_bool(WirePlayer(i).anon > 0)
    /\ row[8] = format_generation_capacity(WirePlayer(i).ticks * 60)

\* the buffer is the whole block the producer wrote, with n >= 0 records
WholeBlock == arg.count >= 0 /\ Len(data) = Len(ProducedBuffer(arg))

\* C13: a well-formed top-ten or flat user-data block with n >= 0 records is
\* decoded to exactly n records in wire order; record i has the wire user_id,
\* the platform name of the platform byte, is_anonymous true exactly when the
\* flag byte is > 0, and generation_capacity = format_generation_capacity of
\* ticks * 60.
C13_WireOrder ==
    /\ (op = "_parse_user_data" /\ arg.kind = "user_data" /\ WholeBlock)
       => /\ status = "ok"
          /\ Len(ret) = arg.count
          /\ \A i \in 1..arg.count : FromWire(ret[i], i)
    /\ (op = "_load_top_ten_player_data" /\ arg.kind = "top_ten" /\ WholeBlock)
       => /\ status = "ok"
          /\ Len(files["top_ten.csv"]) = arg.count + 1
          /\ \A i \in 1..arg.count : RowFromWire(files["top_ten.csv"][i + 1], i)

\* a flat block of four records, one per platform branch, was decoded
C13_Witness ==
    /\ op = "_parse_user_data"
    /\ arg.kind = "user_data"
    /\ arg.count = 4
    /\ WholeBlock
    /\ Len(ret) = 4
    /\ ret[4].platform = "WeGame"
    /\ ret[3].is_anonymous

----------------------------------------------------------------------------
(* SpecFormat: format_generation_capacity on amounts around every unit     *)
(* threshold and every precision threshold, from 0 to just under 16 PW.    *)

\* the high limbs: multiples of 10^9 W
FormatHigh ==
    {0 - 1, 0, 1, 9, 10, 99, 100, 999, 1000, 9999, 10000, 99999, 100000,
     999999, 1000000, 9999999, 10000000, 15999999}

\* the low limbs: amounts below 10^9 W
FormatLow ==
    {0, 1, 9, 10, 99, 100, 999, 1000, 9999, 10000, 99999, 100000, 999499,
     999500, 999999, 1000000, 9999999, 10000000, 99999999, 100000000, 999999999}

InitFormat ==
    /\ data = <<>>
    /\ pos = 0
    /\ pos0 = 0
    /\ op = "new"
    /\ arg \in {Dec(hi, lo) : hi \in FormatHigh, lo \in FormatLow}
    /\ status = "none"
    /\ ret = <<>>
    /\ files = NoFiles
    /\ ClusterIdle
    /\ DigestIdle
    /\ LoggedOut

\* format_generation_capacity(watts)
FormatGenerationCapacity ==
    /\ op = "new"
    /\ op' = "format_generation_capacity"
    /\ status' = "ok"
    /\ ret' = format_watts(arg)
    /\ UNCHANGED <<data, pos, pos0, arg, files>>
    /\ UNCHANGED cluster_vars
    /\ UNCHANGED digest_vars
    /\ UNCHANGED login_vars

NextFormat == FormatGenerationCapacity

SpecFormat == InitFormat /\ [][NextFormat]_vars

\* the amount was formatted and is not negative
Formatted == op = "format_generation_capacity" /\ arg.hi >= 0

\* a * 10^exp <= w, for a in 1, 10, 100
ScaledAtLeast(w, a, exp) ==
    ~DecLess(w, Dec(DecPow(exp).hi * a, DecPow(exp).lo * a))

\* the texts "x u" where x is the amount over 10^exp at d decimals, rounded
\* down or up
Renderings(w, exp, d, u) ==
    IF exp <= d
    THEN {Decimal(w.lo * 10^(d - exp), d) \o " " \o u}
    ELSE {Decimal(DecDiv(w, exp - d), d) \o " " \o u,
          Decimal(DecDiv(w, exp - d) + 1, d) \o " " \o u}

\* the largest unit with w >= 10^exp, the last one (W) when there is none
LargestUnit(w) ==
    IF \E i \in 1..Len(Units) : ScaledAtLeast(w, 1, Units[i].exp)
    THEN Units[CHOOSE i \in 1..Len(Units) :
                 /\ ScaledAtLeast(w, 1, Units[i].exp)
                 /\ \A j \in 1..(i - 1) : ~ScaledAtLeast(w, 1, Units[j].exp)]
    ELSE Units[Len(Units)]

\* C14: format_generation_capacity(w), w >= 0, uses the largest unit u of PW
\* 10^15, TW 10^12, GW 10^9, MW 10^6, kW 10^3, W 1 with w >= u, and W when no
\* unit qualifies (w = 0).
C14_LargestUnit ==
    Formatted
    => ret \in UNION {Renderings(arg, LargestUnit(arg).exp, d, LargestUnit(arg).unit)
                        : d \in 0..2}

\* one PW was formatted as "1.00 PW"
C14_Witness ==
    /\ Formatted
    /\ arg = Dec(1000000, 0)
    /\ ret = "1.00 PW"

\* the decimals the claim gives to the amount over its unit
ClaimedDecimals(w) ==
    IF ScaledAtLeast(w, 100, LargestUnit(w).exp) THEN 0
    ELSE IF ScaledAtLeast(w, 10, LargestUnit(w).exp) THEN 1
    ELSE 2

\* the texts with the claimed number of decimals, whatever the unit
ClaimedRenderings(w) ==
    UNION {Renderings(w, LargestUnit(w).exp, ClaimedDecimals(w), Units[i].unit)
             : i \in 1..Len(Units)}

ScaledDigits(w, exp, d) ==
    IF exp <= d THEN {w.lo * 10^(d - exp)}
    ELSE {DecDiv(w, exp - d), DecDiv(w, exp - d) + 1}

\* the texts whose numeric part is the amount over its unit rounded to d
\* decimals and is below 1000 (d = 0), below 100 (d = 1) or below 10 (d = 2):
\* in each case fewer than 1000 counts of 10^-d
InBandRenderings(w) ==
    UNION {{Decimal(n, d) \o " " \o LargestUnit(w).unit
              : n \in {x \in ScaledDigits(w, LargestUnit(w).exp, d) : x < 1000}}
             : d \in 0..2}

\* C27: for every input >= 0 the numeric part printed, after rounding to its
\* displayed precision, is below 1000 (never "1000 kW" for an amount below
\* the next unit), a 2-decimal output is below 10 and a 1-decimal output is
\* below 100.
C27_RoundedInBand ==
    Formatted => ret \in InBandRenderings(arg)

\* C16: the decoded difficulty display is the peace-mode string exactly when
\* (key mod 1000) div 100 = 0, and otherwise the decimal string of
\* (key mod 1000) mod 100 without zero padding (raw 105 gives "5", raw 100
\* gives "0").
C16_DifficultyDisplay ==
    op = "decode_seed_key"
    => /\ (ret.out[4] = PeaceMode) <=> ((ret.key % 1000) \div 100 = 0)
       /\ ((ret.key % 1000) \div 100 # 0) => ret.out[4] = str((ret.key % 1000) % 100)
       /\ (ret.key % 1000 = 105) => ret.out[4] = "5"
       /\ (ret.key % 1000 = 100) => ret.out[4] = "0"

\* a key with raw difficulty 105 was decoded and displays "5"
C16_Witness ==
    /\ op = "decode_seed_key"
    /\ ret.key % 1000 = 105
    /\ ret.out[4] = "5"

\* C17: for every raw difficulty n in {0} and 100..199,
\* combat_difficulty_to_raw(combat_mode_difficulty_number(n)) = n; a display
\* string d of one character is rebuilt as the integer "10" + d, a longer one
\* as "1" + d.
C17_DifficultyRoundTrip ==
    (op = "combat_difficulty_to_raw"
     /\ (ret.key % 1000 = 0 \/ ret.key % 1000 \in 100..199))
    => /\ status = "ok"
       /\ ret.display = combat_mode_difficulty_number(ret.key % 1000)
       /\ ret.raw = ret.key % 1000
       /\ ret.display # PeaceMode
          => str(ret.raw) = (IF Len(ret.display) = 1 THEN "10" ELSE "1") \o ret.display

\* raw 105 was displayed as "5" and rebuilt as 105
C17_Witness ==
    /\ op = "combat_difficulty_to_raw"
    /\ ret.key % 1000 = 105
    /\ ret.display = "5"
    /\ ret.raw = 105

----------------------------------------------------------------------------
(* md5f.py: the digest routine MD5F.  A 32-bit word is kept as two 16-bit   *)
(* halves, value = hi * 2^16 + lo, since the checker's integers stop at    *)
(* 2^31 - 1.                                                              *)

\* 2^16, the weight of the high half of a word
Half == 2^16

Word(hi, lo) == [hi |-> hi, lo |-> lo]

\* v & MASK32 for the integer v = hi * 2^16 + lo, hi and lo non-negative
Mask32(hi, lo) == Word((hi + lo \div Half) % Half, lo % Half)

RECURSIVE BitXor(_, _)
\* a ^ b on non-negative integers
BitXor(a, b) ==
    IF a = 0 THEN b
    ELSE IF b = 0 THEN a
    ELSE ((a + b) % 2) + 2 * BitXor(a \div 2, b \div 2)

\* the 16 low bits of ~a
BitNot(a) == Half - 1 - a

\* (x & y) | (~x & z)
F(x, y, z) ==
    Word(BitOr(BitAnd(x.hi, y.hi), BitAnd(BitNot(x.hi), z.hi)),
         BitOr(BitAnd(x.lo, y.lo), BitAnd(BitNot(x.lo), z.lo)))

\* (x & z) | (y & ~z)
G(x, y, z) ==
    Word(BitOr(BitAnd(x.hi, z.hi), BitAnd(y.hi, BitNot(z.hi))),
         BitOr(BitAnd(x.lo, z.lo), BitAnd(y.lo, BitNot(z.lo))))

\* x ^ y ^ z
H(x, y, z) ==
    Word(BitXor(BitXor(x.hi, y.hi), z.hi), BitXor(BitXor(x.lo, y.lo), z.lo))

\* y ^ (x | ~z): a negative Python integer, of which the mask in II keeps the
\* 32 low bits; these are the 32 bits given here
I(x, y, z) ==
    Word(BitXor(y.hi, BitOr(x.hi, BitNot(z.hi))),
         BitXor(y.lo, BitOr(x.lo, BitNot(z.lo))))

\* (v << s) & MASK32, 0 <= s <= 32
shift_left(v, s) ==
    IF s >= 16
    THEN Word((v.lo % 2^(32 - s)) * 2^(s - 16), 0)
    ELSE Word((v.hi % 2^(16 - s)) * 2^s + v.lo \div 2^(16 - s), (v.lo % 2^(16 - s)) * 2^s)

\* v >> n, 0 <= n <= 32
shift_right(v, n) ==
    IF n >= 16
    THEN Word(0, v.hi \div 2^(n - 16))
    ELSE Word(v.hi \div 2^n, (v.hi % 2^n) * 2^(16 - n) + v.lo \div 2^n)

\* ((v << s) | (v >> (32 - s))) & MASK32
rol(v, s) ==
    Word(BitOr(shift_left(v, s).hi, shift_right(v, 32 - s).hi),
         BitOr(shift_left(v, s).lo, shift_right(v, 32 - s).lo))

\* (a + b) & MASK32
add(a, b) == Mask32(a.hi + b.hi, a.lo + b.lo)

\* (a + f + mj + ti) & MASK32
add4(a, f, mj, ti) == Mask32(a.hi + f.hi + mj.hi + ti.hi, a.lo + f.lo + mj.lo + ti.lo)

FF(a, b, c, d, mj, s, ti) ==
    CHOOSE out \in {add(r, b) : r \in {rol(v, s) : v \in {add4(a, f, mj, ti) : f \in {F(b, c, d)}}}} : TRUE

GG(a, b, c, d, mj, s, ti) ==
    CHOOSE out \in {add(r, b) : r \in {rol(v, s) : v \in {add4(a, f, mj, ti) : f \in {G(b, c, d)}}}} : TRUE

HH(a, b, c, d, mj, s, ti) ==
    CHOOSE out \in {add(r, b) : r \in {rol(v, s) : v \in {add4(a, f, mj, ti) : f \in {H(b, c, d)}}}} : TRUE

II(a, b, c, d, mj, s, ti) ==
    CHOOSE out \in {add(r, b) : r \in {rol(v, s) : v \in {add4(a, f, mj, ti) : f \in {I(b, c, d)}}}} : TRUE

\* _init_state: the four words it stores in MD5F.A .. MD5F.D
init_state ==
    [A |-> Word(\h6745, \h2301), B |-> Word(\hEFDC, \hAB89),
     C |-> Word(\h98BA, \hDCFE), D |-> Word(\h1032, \h5746)]

\* out[i:j] of a byte string (0-based, clipped to the string)
slice(out, i, j) == SubSeq(out, i + 1, IF j < Len(out) THEN j ELSE Len(out))

\* int.from_bytes(bs, "little") of at most four bytes, as a word
from_bytes(bs) ==
    Word((IF Len(bs) >= 4 THEN bs[4] * 256 ELSE 0) + (IF Len(bs) >= 3 THEN bs[3] ELSE 0),
         (IF Len(bs) >= 2 THEN bs[2] * 256 ELSE 0) + (IF Len(bs) >= 1 THEN bs[1] ELSE 0))

\* the word loop of _append and _append_opt: one word per i in
\* range(0, total_bytes, 4)
words(out, total_bytes) ==
    [k \in 1..((total_bytes + 3) \div 4) |-> from_bytes(slice(out, 4 * (k - 1), 4 * (k - 1) + 4))]

\* the rem == 56 case given one block less
padded_short_tail(message) ==
    LET num2 == Len(message)
        rem == num2 % 64
        pad_zeros == IF rem < 56 THEN 55 - rem
                     ELSE IF rem = 56 THEN 63
                     ELSE 63 - rem + 56
        total_bytes == IF rem < 56 THEN num2 - rem + 64
                       ELSE IF rem = 56 THEN num2 + 8
                       ELSE num2 + 64 - rem + 64
    IN [out |-> message \o <<128>> \o [k \in 1..pad_zeros |-> 0] \o LEBytes(num2 * 8, 8),
        total_bytes |-> total_bytes]

\* _append up to its word loop: the padded buffer out and total_bytes
\* (num2 * 8 is below 2^64, so the mask of bit_len keeps it)
padded(message) ==
    LET num2 == Len(message)
        rem == num2 % 64
        pad_zeros == IF rem < 56 THEN 55 - rem
                     ELSE IF rem = 56 THEN 63
                     ELSE 63 - rem + 56
        total_bytes == IF rem < 56 THEN num2 - rem + 64
                       ELSE IF rem = 56 THEN num2 + 8 + 64
                       ELSE num2 + 64 - rem + 64
    IN [out |-> message \o <<128>> \o [k \in 1..pad_zeros |-> 0] \o LEBytes(num2 * 8, 8),
        total_bytes |-> total_bytes]

\* the rem == 56 case left to the first branch
padded_opt_two_cases(message) ==
    LET num2 == Len(message)
        rem == num2 % 64
        pad_zeros == IF rem <= 56 THEN 55 - rem
                     ELSE 63 - rem + 56
        total_bytes == IF rem <= 56 THEN num2 - rem + 64
                       ELSE num2 + 64 - rem + 64
    IN [out |-> message \o <<128>> \o [k \in 1..pad_zeros |-> 0] \o LEBytes(num2 * 8, 8),
        total_bytes |-> total_bytes]

\* _append_opt up to its word loop
padded_opt(message) ==
    LET num2 == Len(message)
        rem == num2 % 64
        pad_zeros == IF rem < 56 THEN 55 - rem
                     ELSE IF rem = 56 THEN 63
                     ELSE 63 - rem + 56
        total_bytes == IF rem < 56 THEN num2 - rem + 64
                       ELSE IF rem = 56 THEN num2 + 8 + 64
                       ELSE num2 + 64 - rem + 64
    IN [out |-> message \o <<128>> \o [k \in 1..pad_zeros |-> 0] \o LEBytes(num2 * 8, 8),
        total_bytes |-> total_bytes]

\* the locals of _append when it returns; x is the list returned
append_frame(message) ==
    CHOOSE out \in {[x |-> words(f.out, f.total_bytes), out |-> f.out, total_bytes |-> f.total_bytes]
                    : f \in {padded(message)}} : TRUE

append_opt_frame(message) ==
    CHOOSE out \in {[x |-> words(f.out, f.total_bytes), out |-> f.out, total_bytes |-> f.total_bytes]
                    : f \in {padded_opt(message)}} : TRUE

append(message) == append_frame(message).x

append_opt(message) == append_opt_frame(message).x

\* the 64 steps of one block in _transform: the function, its register
\* arguments (the first is also the register assigned), the offset j of the
\* message word x[i + j], the shift and the constant
Steps == <<
    [f |-> "FF", p |-> <<"a", "b", "c", "d">>, j |->  0, s |->  7, ti |-> Word(\hD76A, \hA478)],
    [f |-> "FF", p |-> <<"d", "a", "b", "c">>, j |->  1, s |-> 12, ti |-> Word(\hE8C7, \hB756)],
    [f |-> "FF", p |-> <<"c", "d", "a", "b">>, j |->  2, s |-> 17, ti |-> Word(\h2420, \h70DB)],
    [f |-> "FF", p |-> <<"b", "c", "d", "a">>, j |->  3, s |-> 22, ti |-> Word(\hC1BD, \hCEEE)],
    [f |-> "FF", p |-> <<"a", "b", "c", "d">>, j |->  4, s |->  7, ti |-> Word(\hF57C, \h0FAF)],
    [f |-> "FF", p |-> <<"d", "a", "b", "c">>, j |->  5, s |-> 12, ti |-> Word(\h4787, \hC62A)],
    [f |-> "FF", p |-> <<"c", "d", "a", "b">>, j |->  6, s |-> 17, ti |-> Word(\hA830, \h4613)],
    [f |-> "FF", p |-> <<"b", "c", "d", "a">>, j |->  7, s |-> 22, ti |-> Word(\hFD46, \h9501)],
    [f |-> "FF", p |-> <<"a", "b", "c", "d">>, j |->  8, s |->  7, ti |-> Word(\h6980, \h98D8)],
    [f |-> "FF", p |-> <<"d", "a", "b", "c">>, j |->  9, s |-> 12, ti |-> Word(\h8B44, \hF7AF)],
    [f |-> "FF", p |-> <<"c", "d", "a", "b">>, j |-> 10, s |-> 17, ti |-> Word(\hFFFF, \h5BB1)],
    [f |-> "FF", p |-> <<"b", "c", "d", "a">>, j |-> 11, s |-> 22, ti |-> Word(\h895C, \hD7BE)],
    [f |-> "FF", p |-> <<"a", "b", "c", "d">>, j |-> 12, s |->  7, ti |-> Word(\h6B90, \h1122)],
    [f |-> "FF", p |-> <<"d", "a", "b", "c">>, j |-> 13, s |-> 12, ti |-> Word(\hFD98, \h7193)],
    [f |-> "FF", p |-> <<"c", "d", "a", "b">>, j |-> 14, s |-> 17, ti |-> Word(\hA679, \h438E)],
    [f |-> "FF", p |-> <<"b", "c", "d", "a">>, j |-> 15, s |-> 22, ti |-> Word(\h49B4, \h0821)],
    [f |-> "GG", p |-> <<"a", "b", "c", "d">>, j |->  1, s |->  5, ti |-> Word(\hF61E, \h2562)],
    [f |-> "GG", p |-> <<"d", "a", "b", "c">>, j |->  6, s |->  9, ti |-> Word(\hC040, \hB340)],
    [f |-> "GG", p |-> <<"c", "d", "a", "b">>, j |-> 11, s |-> 14, ti |-> Word(\h265E, \h5A51)],
    [f |-> "GG", p |-> <<"b", "c", "d", "a">>, j |->  0, s |-> 20, ti |-> Word(\hE9B6, \hC7AA)],
    [f |-> "GG", p |-> <<"a", "b", "c", "d">>, j |->  5, s |->  5, ti |-> Word(\hD62F, \h105D)],
    [f |-> "GG", p |-> <<"d", "a", "b", "c">>, j |-> 10, s |->  9, ti |-> Word(\h0244, \h1453)],
    [f |-> "GG", p |-> <<"c", "d", "a", "b">>, j |-> 15, s |-> 14, ti |-> Word(\hD8A1, \hE681)],
    [f |-> "GG", p |-> <<"b", "c", "d", "a">>, j |->  4, s |-> 20, ti |-> Word(\hE7D3, \hFBC8)],
    [f |-> "GG", p |-> <<"a", "b", "c", "d">>, j |->  9, s |->  5, ti |-> Word(\h21E1, \hCDE6)],
    [f |-> "GG", p |-> <<"d", "a", "b", "c">>, j |-> 14, s |->  9, ti |-> Word(\hC337, \h07D6)],
    [f |-> "GG", p |-> <<"c", "d", "a", "b">>, j |->  3, s |-> 14, ti |-> Word(\hF4D5, \h0D87)],
    [f |-> "GG", p |-> <<"b", "c", "d", "a">>, j |->  8, s |-> 20, ti |-> Word(\h455A, \h14ED)],
    [f |-> "GG", p |-> <<"a", "b", "c", "d">>, j |-> 13, s |->  5, ti |-> Word(\hA9E3, \hE905)],
    [f |-> "GG", p |-> <<"d", "a", "b", "c">>, j |->  2, s |->  9, ti |-> Word(\hFCEF, \hA3F8)],
    [f |-> "GG", p |-> <<"c", "d", "a", "b">>, j |->  7, s |-> 14, ti |-> Word(\h676F, \h02D9)],
    [f |-> "GG", p |-> <<"b", "c", "d", "a">>, j |-> 12, s |-> 20, ti |-> Word(\h8D2A, \h4C8A)],
    [f |-> "HH", p |-> <<"a", "b", "c", "d">>, j |->  5, s |->  4, ti |-> Word(\hFFFA, \h3942)],
    [f |-> "HH", p |-> <<"d", "a", "b", "c">>, j |->  8, s |-> 11, ti |-> Word(\h8771, \hF681)],
    [f |-> "HH", p |-> <<"c", "d", "a", "b">>, j |-> 11, s |-> 16, ti |-> Word(\h6D9D, \h6122)],
    [f |-> "HH", p |-> <<"b", "c", "d", "a">>, j |-> 14, s |-> 23, ti |-> Word(\hFDE5, \h380C)],
    [f |-> "HH", p |-> <<"a", "b", "c", "d">>, j |->  1, s |->  4, ti |-> Word(\hA4BE, \hEA44)],
    [f |-> "HH", p |-> <<"d", "a", "b", "c">>, j |->  4, s |-> 11, ti |-> Word(\h4BDE, \hCFA9)],
    [f |-> "HH", p |-> <<"c", "d", "a", "b">>, j |->  7, s |-> 16, ti |-> Word(\hF6BB, \h4B60)],
    [f |-> "HH", p |-> <<"b", "c", "d", "a">>, j |-> 10, s |-> 23, ti |-> Word(\hBEBF, \hBC70)],
    [f |-> "HH", p |-> <<"a", "b", "c", "d">>, j |-> 13, s |->  4, ti |-> Word(\h289B, \h7EC6)],
    [f |-> "HH", p |-> <<"d", "a", "b", "c">>, j |->  0, s |-> 11, ti |-> Word(\hEAA1, \h27FA)],
    [f |-> "HH", p |-> <<"c", "d", "a", "b">>, j |->  3, s |-> 16, ti |-> Word(\hD4EF, \h3085)],
    [f |-> "HH", p |-> <<"b", "c", "d", "a">>, j |->  6, s |-> 23, ti |-> Word(\h0488, \h1D05)],
    [f |-> "HH", p |-> <<"a", "b", "c", "d">>, j |->  9, s |->  4, ti |-> Word(\hD9D4, \hD039)],
    [f |-> "HH", p |-> <<"d", "a", "b", "c">>, j |-> 12, s |-> 11, ti |-> Word(\hE6DB, \h99E5)],
    [f |-> "HH", p |-> <<"c", "d", "a", "b">>, j |-> 15, s |-> 16, ti |-> Word(\h1FA2, \h7CF8)],
    [f |-> "HH", p |-> <<"b", "c", "d", "a">>, j |->  2, s |-> 23, ti |-> Word(\hC4AC, \h5665)],
    [f |-> "II", p |-> <<"a", "b", "c", "d">>, j |->  0, s |->  6, ti |-> Word(\hF429, \h2244)],
    [f |-> "II", p |-> <<"d", "a", "b", "c">>, j |->  7, s |-> 10, ti |-> Word(\h432A, \hFF97)],
    [f |-> "II", p |-> <<"c", "d", "a", "b">>, j |-> 14, s |-> 15, ti |-> Word(\hAB94, \h23A7)],
    [f |-> "II", p |-> <<"b", "c", "d", "a">>, j |->  5, s |-> 21, ti |-> Word(\hFC93, \hA039)],
    [f |-> "II", p |-> <<"a", "b", "c", "d">>, j |-> 12, s |->  6, ti |-> Word(\h655B, \h59C3)],
    [f |-> "II", p |-> <<"d", "a", "b", "c">>, j |->  3, s |-> 10, ti |-> Word(\h8F0C, \hCC92)],
    [f |-> "II", p |-> <<"c", "d", "a", "b">>, j |-> 10, s |-> 15, ti |-> Word(\hFFEF, \hF47D)],
    [f |-> "II", p |-> <<"b", "c", "d", "a">>, j |->  1, s |-> 21, ti |-> Word(\h8584, \h5DD1)],
    [f |-> "II", p |-> <<"a", "b", "c", "d">>, j |->  8, s |->  6, ti |-> Word(\h6FA8, \h7E4F)],
    [f |-> "II", p |-> <<"d", "a", "b", "c">>, j |-> 15, s |-> 10, ti |-> Word(\hFE2C, \hE6E0)],
    [f |-> "II", p |-> <<"c", "d", "a", "b">>, j |->  6, s |-> 15, ti |-> Word(\hA301, \h4314)],
    [f |-> "II", p |-> <<"b", "c", "d", "a">>, j |-> 13, s |-> 21, ti |-> Word(\h4E08, \h11A1)],
    [f |-> "II", p |-> <<"a", "b", "c", "d">>, j |->  4, s |->  6, ti |-> Word(\hF753, \h7E82)],
    [f |-> "II", p |-> <<"d", "a", "b", "c">>, j |-> 11, s |-> 10, ti |-> Word(\hBD3A, \hF235)],
    [f |-> "II", p |-> <<"c", "d", "a", "b">>, j |->  2, s |-> 15, ti |-> Word(\h2AD7, \hD2BB)],
    [f |-> "II", p |-> <<"b", "c", "d", "a">>, j |->  9, s |-> 21, ti |-> Word(\hEB86, \hD391)]
>>

\* one step of a block on the local registers st = [a, b, c, d]
step(st, x, i, row) ==
    [st EXCEPT ![row.p[1]] =
        IF row.f = "FF"
        THEN FF(st[row.p[1]], st[row.p[2]], st[row.p[3]], st[row.p[4]], x[i + row.j + 1], row.s, row.ti)
        ELSE IF row.f = "GG"
        THEN GG(st[row.p[1]], st[row.p[2]], st[row.p[3]], st[row.p[4]], x[i + row.j + 1], row.s, row.ti)
        ELSE IF row.f = "HH"
        THEN HH(st[row.p[1]], st[row.p[2]], st[row.p[3]], st[row.p[4]], x[i + row.j + 1], row.s, row.ti)
        ELSE II(st[row.p[1]], st[row.p[2]], st[row.p[3]], st[row.p[4]], x[i + row.j + 1], row.s, row.ti)]

RECURSIVE rounds(_, _, _, _, _)
\* the steps first .. last of the block at x[i], in order (run as two halves
\* one after the other, which keeps the evaluation shallow)
rounds(st, x, i, first, last) ==
    IF first = last THEN step(st, x, i, Steps[first])
    ELSE CHOOSE out \in {rounds(r, x, i, ((first + last) \div 2) + 1, last)
                         : r \in {rounds(st, x, i, first, (first + last) \div 2)}} : TRUE

\* a, b, c, d = MD5F.A, MD5F.B, MD5F.C, MD5F.D and the four rounds on them
block_read(S, x, i) == rounds([a |-> S.A, b |-> S.B, c |-> S.C, d |-> S.D], x, i, 1, Len(Steps))

\* MD5F.A = (MD5F.A + a) & MASK32 and the same for B, C, D
block_write(S, st) ==
    [A |-> add(S.A, st.a), B |-> add(S.B, st.b), C |-> add(S.C, st.c), D |-> add(S.D, st.d)]

RECURSIVE transform_from(_, _, _)
\* the while loop of _transform from block i on, MD5F.A .. MD5F.D being S
transform_from(S, x, i) ==
    IF ~(i < Len(x)) THEN S
    ELSE CHOOSE out \in {transform_from(T, x, i + 16)
                         : T \in {block_write(S, st) : st \in {block_read(S, x, i)}}} : TRUE

\* _transform(x) run alone with MD5F.A .. MD5F.D being S: the state it
\* leaves, which is also the tuple it returns
transform(S, x) == CHOOSE out \in {transform_from(S, y, 0) : y \in {x}} : TRUE

\* w.to_bytes(4, "little")
to_bytes(w) == <<w.lo % 256, w.lo \div 256, w.hi % 256, w.hi \div 256>>

digest_to_bytes(state) ==
    to_bytes(state.A) \o to_bytes(state.B) \o to_bytes(state.C) \o to_bytes(state.D)

HexDigits == <<"0", "1", "2", "3", "4", "5", "6", "7", "8", "9", "A", "B", "C", "D", "E", "F">>

RECURSIVE bytes_to_hex_upper(_)
\* "".join(f"{b:02X}" for b in bs)
bytes_to_hex_upper(bs) ==
    IF bs = <<>> THEN ""
    ELSE HexDigits[(Head(bs) \div 16) + 1] \o HexDigits[(Head(bs) % 16) + 1] \o bytes_to_hex_upper(Tail(bs))

\* Compute(message) run alone
Compute(message) ==
    bytes_to_hex_upper(digest_to_bytes(transform(init_state, append(message))))

\* Compute_Stream(stream) run alone; a stream is the bytes read() returns
Compute_Stream(stream) ==
    bytes_to_hex_upper(digest_to_bytes(transform(init_state, append(stream))))

\* Compute_Opt(stream) run alone
Compute_Opt(stream) ==
    bytes_to_hex_upper(digest_to_bytes(transform(init_state, append_opt(stream))))

----------------------------------------------------------------------------
(* Specification of the digest routine run alone: every operation applied  *)
(* to messages of every length up to MaxMessage                            *)

\* longest message given to the digest in SpecDigest
MaxMessage == 130

\* byte patterns of the messages: byte k (from 0) is (step * k + first) % 256;
\* all zero, all 0x80 (the bytes of the padding) and a ramp
Fills == {<<0, 0>>, <<0, 128>>, <<37, 11>>}

Message(len, fill) == [k \in 1..len |-> (fill[1] * (k - 1) + fill[2]) % 256]

Messages == {Message(len, fill) : len \in 0..MaxMessage, fill \in Fills}

InitDigest ==
    /\ data = <<>>
    /\ pos = 0
    /\ pos0 = 0
    /\ op = "new"
    /\ arg \in Messages
    /\ status = "none"
    /\ ret = <<>>
    /\ files = NoFiles
    /\ ClusterIdle
    /\ DigestIdle
    /\ LoggedOut

\* MD5F._append(message); ret holds its locals out, total_bytes and the list
\* x it returns
AppendMessage ==
    /\ op = "new"
    /\ op' = "_append"
    /\ status' = "ok"
    /\ ret' = append_frame(arg)
    /\ UNCHANGED <<data, pos, pos0, arg, files>>
    /\ UNCHANGED cluster_vars
    /\ UNCHANGED digest_vars
    /\ UNCHANGED login_vars

\* MD5F._append_opt(message)
AppendOptMessage ==
    /\ op = "new"
    /\ op' = "_append_opt"
    /\ status' = "ok"
    /\ ret' = append_opt_frame(arg)
    /\ UNCHANGED <<data, pos, pos0, arg, files>>
    /\ UNCHANGED cluster_vars
    /\ UNCHANGED digest_vars
    /\ UNCHANGED login_vars

\* MD5F.Compute_Stream(stream) run alone
ComputeStream ==
    /\ op = "new"
    /\ op' = "Compute_Stream"
    /\ status' = "ok"
    /\ \E S \in {transform(init_state, append(arg))} :
         /\ A' = S.A
         /\ B' = S.B
         /\ C' = S.C
         /\ D' = S.D
         /\ ret' = bytes_to_hex_upper(digest_to_bytes(S))
    /\ UNCHANGED <<data, pos, pos0, arg, files, calls>>
    /\ UNCHANGED cluster_vars
    /\ UNCHANGED login_vars

\* MD5F.Compute_Opt(stream) run alone
ComputeOpt ==
    /\ op = "new"
    /\ op' = "Compute_Opt"
    /\ status' = "ok"
    /\ \E S \in {transform(init_state, append_opt(arg))} :
         /\ A' = S.A
         /\ B' = S.B
         /\ C' = S.C
         /\ D' = S.D
         /\ ret' = bytes_to_hex_upper(digest_to_bytes(S))
    /\ UNCHANGED <<data, pos, pos0, arg, files, calls>>
    /\ UNCHANGED cluster_vars
    /\ UNCHANGED login_vars

NextDigest == AppendMessage \/ AppendOptMessage \/ ComputeStream \/ ComputeOpt

SpecDigest == InitDigest /\ [][NextDigest]_vars

\* C18: for every message of 0 to 130 bytes _append and _append_opt return
\* the same word list, and Compute_Stream and Compute_Opt the same digest.
C18_PaddingPathsAgree ==
    /\ op = "_append" => ret.x = append_opt(arg)
    /\ op = "_append_opt" => ret.x = append(arg)
    /\ op = "Compute_Stream" => ret = Compute_Opt(arg)

\* a message of 56 bytes (the rem == 56 branch) went through _append_opt and
\* came out as the two blocks _append gives
C18_Witness ==
    /\ op = "_append_opt"
    /\ Len(arg) = 56
    /\ Len(ret.x) = 32
    /\ ret.x = append(arg)

\* C19: the padded buffer of a message of L bytes is the message, one 0x80
\* byte, zero bytes up to a length congruent to 56 mod 64, then 8 * L as 8
\* little-endian bytes; its length is total_bytes, a multiple of 64 and the
\* smallest one >= L + 9; total_bytes / 4 words are produced, each from four
\* bytes inside the buffer.
C19_Padding ==
    op = "_append"
    => LET L == Len(arg)
           n == Len(ret.out)
       IN /\ n >= L + 9
          /\ SubSeq(ret.out, 1, L) = arg
          /\ ret.out[L + 1] = 128
          /\ \A k \in (L + 2)..(n - 8) : ret.out[k] = 0
          /\ (n - 8) % 64 = 56
          /\ SubSeq(ret.out, n - 7, n) = LEBytes(8 * L, 8)
          /\ n = ret.total_bytes
          /\ ret.total_bytes % 64 = 0
          /\ ret.total_bytes >= L + 9
          /\ ret.total_bytes - 64 < L + 9
          /\ Len(ret.x) * 4 = ret.total_bytes
          /\ \A k \in 1..Len(ret.x) :
                /\ 4 * k <= n
                /\ ret.x[k] = from_bytes(SubSeq(ret.out, 4 * k - 3, 4 * k))

\* a message of 120 bytes (rem = 56) was padded to three blocks
C19_Witness ==
    /\ op = "_append"
    /\ Len(arg) = 120
    /\ ret.total_bytes = 192
    /\ Len(ret.out) = 192
    /\ Len(ret.x) = 48

----------------------------------------------------------------------------
(* Specification of two MD5F.Compute calls running at once (two threads of *)
(* one process): the class attributes A, B, C, D are shared, everything    *)
(* else is local to a call.  A call advances by the steps _init_state,     *)
(* _append, a block's read of A, B, C, D with its rounds, the block's      *)
(* write-back, and the final read.                                         *)

Calls == {1, 2}

\* the messages of the two calls: empty, "abc", and one of two blocks
ConcurrentMessages == {<<>>, <<97, 98, 99>>, Message(64, <<37, 11>>)}

\* a call that has not started
NewCall(message) ==
    [pc |-> "start", message |-> message, x |-> <<>>, i |-> 0,
     st |-> [a |-> Word(0, 0), b |-> Word(0, 0), c |-> Word(0, 0), d |-> Word(0, 0)],
     result |-> ""]

InitConcurrent ==
    /\ data = <<>>
    /\ pos = 0
    /\ pos0 = 0
    /\ op = "Compute"
    /\ arg = <<>>
    /\ status = "none"
    /\ ret = <<>>
    /\ files = NoFiles
    /\ ClusterIdle
    /\ A = Word(0, 0)
    /\ B = Word(0, 0)
    /\ C = Word(0, 0)
    /\ D = Word(0, 0)
    /\ calls \in {[c \in Calls |-> NewCall(m[c])] : m \in [Calls -> ConcurrentMessages]}
    /\ LoggedOut

\* MD5F._init_state() of call c
InitState(c) ==
    /\ calls[c].pc = "start"
    /\ A' = init_state.A
    /\ B' = init_state.B
    /\ C' = init_state.C
    /\ D' = init_state.D
    /\ calls' = [calls EXCEPT ![c].pc = "append"]
    /\ UNCHANGED <<data, pos, pos0, op, arg, status, ret, files>>
    /\ UNCHANGED cluster_vars
    /\ UNCHANGED login_vars

\* x = MD5F._append(message) of call c, and i = 0 of its _transform
AppendCall(c) ==
    /\ calls[c].pc = "append"
    /\ calls' = [calls EXCEPT ![c].pc = "loop", ![c].x = append(calls[c].message), ![c].i = 0]
    /\ UNCHANGED <<A, B, C, D>>
    /\ UNCHANGED <<data, pos, pos0, op, arg, status, ret, files>>
    /\ UNCHANGED cluster_vars
    /\ UNCHANGED login_vars

\* call c enters the loop body: it reads A, B, C, D into a, b, c, d and runs
\* the four rounds on its locals
BlockRead(c) ==
    /\ calls[c].pc = "loop"
    /\ calls[c].i < Len(calls[c].x)
    /\ calls' = [calls EXCEPT ![c].pc = "write",
                              ![c].st = block_read([A |-> A, B |-> B, C |-> C, D |-> D],
                                                   calls[c].x, calls[c].i)]
    /\ UNCHANGED <<A, B, C, D>>
    /\ UNCHANGED <<data, pos, pos0, op, arg, status, ret, files>>
    /\ UNCHANGED cluster_vars
    /\ UNCHANGED login_vars

\* call c adds its a, b, c, d to A, B, C, D and steps i
BlockWrite(c) ==
    /\ calls[c].pc = "write"
    /\ \E S \in {block_write([A |-> A, B |-> B, C |-> C, D |-> D], calls[c].st)} :
         /\ A' = S.A
         /\ B' = S.B
         /\ C' = S.C
         /\ D' = S.D
    /\ calls' = [calls EXCEPT ![c].pc = "loop", ![c].i = calls[c].i + 16]
    /\ UNCHANGED <<data, pos, pos0, op, arg, status, ret, files>>
    /\ UNCHANGED cluster_vars
    /\ UNCHANGED login_vars

\* call c leaves the loop, reads A, B, C, D and returns their hex digest
FinalRead(c) ==
    /\ calls[c].pc = "loop"
    /\ ~(calls[c].i < Len(calls[c].x))
    /\ calls' = [calls EXCEPT ![c].pc = "done",
                              ![c].result = bytes_to_hex_upper(digest_to_bytes(
                                                [A |-> A, B |-> B, C |-> C, D |-> D]))]
    /\ UNCHANGED <<A, B, C, D>>
    /\ UNCHANGED <<data, pos, pos0, op, arg, status, ret, files>>
    /\ UNCHANGED cluster_vars
    /\ UNCHANGED login_vars

NextConcurrent ==
    \/ \E c \in Calls : InitState(c)
    \/ \E c \in Calls : AppendCall(c)
    \/ \E c \in Calls : BlockRead(c)
    \/ \E c \in Calls : BlockWrite(c)
    \/ \E c \in Calls : FinalRead(c)

SpecConcurrent == InitConcurrent /\ [][NextConcurrent]_vars

\* C20: when two Compute calls run with their steps interleaved in any
\* order, each call returns the digest it returns when run alone.
C20_ConcurrentDigest ==
    \A c \in DOMAIN calls :
        calls[c].pc = "done" => calls[c].result = Compute(calls[c].message)

----------------------------------------------------------------------------
(* Specification of digest calls made one after another in one process:    *)
(* each call runs to its end before the next starts, and finds in          *)
(* MD5F.A .. MD5F.D the words the call before it left                      *)

\* most calls made one after another in SpecSequential
MaxCalls == 3

\* _init_state() without its four assignments: the words stay as found
init_state_kept(S) == S

\* _init_state() when MD5F.A .. MD5F.D are S: all four are overwritten
init_state_from(S) == init_state

\* a call that has returned
DoneCall(name, message, result) ==
    [pc |-> "done", op |-> name, message |-> message, result |-> result]

InitSequential ==
    /\ data = <<>>
    /\ pos = 0
    /\ pos0 = 0
    /\ op = "new"
    /\ arg = <<>>
    /\ status = "none"
    /\ ret = <<>>
    /\ files = NoFiles
    /\ ClusterIdle
    /\ DigestIdle
    /\ LoggedOut

\* a whole MD5F.Compute(message) after the calls made so far
CallCompute ==
    /\ Len(calls) < MaxCalls
    /\ op' = "Compute"
    /\ status' = "ok"
    /\ \E m \in ConcurrentMessages :
         \E S \in {transform(init_state_from([A |-> A, B |-> B, C |-> C, D |-> D]), append(m))} :
            /\ arg' = m
            /\ A' = S.A
            /\ B' = S.B
            /\ C' = S.C
            /\ D' = S.D
            /\ ret' = bytes_to_hex_upper(digest_to_bytes(S))
            /\ calls' = Append(calls, DoneCall("Compute", m, bytes_to_hex_upper(digest_to_bytes(S))))
    /\ UNCHANGED <<data, pos, pos0, files>>
    /\ UNCHANGED cluster_vars
    /\ UNCHANGED login_vars

\* a whole MD5F.Compute_Stream(stream) after the calls made so far
CallComputeStream ==
    /\ Len(calls) < MaxCalls
    /\ op' = "Compute_Stream"
    /\ status' = "ok"
    /\ \E m \in ConcurrentMessages :
         \E S \in {transform(init_state_from([A |-> A, B |-> B, C |-> C, D |-> D]), append(m))} :
            /\ arg' = m
            /\ A' = S.A
            /\ B' = S.B
            /\ C' = S.C
            /\ D' = S.D
            /\ ret' = bytes_to_hex_upper(digest_to_bytes(S))
            /\ calls' = Append(calls, DoneCall("Compute_Stream", m, bytes_to_hex_upper(digest_to_bytes(S))))
    /\ UNCHANGED <<data, pos, pos0, files>>
    /\ UNCHANGED cluster_vars
    /\ UNCHANGED login_vars

\* a whole MD5F.Compute_Opt(stream) after the calls made so far
CallComputeOpt ==
    /\ Len(calls) < MaxCalls
    /\ op' = "Compute_Opt"
    /\ status' = "ok"
    /\ \E m \in ConcurrentMessages :
         \E S \in {transform(init_state_from([A |-> A, B |-> B, C |-> C, D |-> D]), append_opt(m))} :
            /\ arg' = m
            /\ A' = S.A
            /\ B' = S.B
            /\ C' = S.C
            /\ D' = S.D
            /\ ret' = bytes_to_hex_upper(digest_to_bytes(S))
            /\ calls' = Append(calls, DoneCall("Compute_Opt", m, bytes_to_hex_upper(digest_to_bytes(S))))
    /\ UNCHANGED <<data, pos, pos0, files>>
    /\ UNCHANGED cluster_vars
    /\ UNCHANGED login_vars

NextSequential == CallCompute \/ CallComputeStream \/ CallComputeOpt

SpecSequential == InitSequential /\ [][NextSequential]_vars

\* C21: after any sequence of completed Compute / Compute_Stream /
\* Compute_Opt calls, Compute(m) returns the digest it returns on a fresh
\* process: the words left in A, B, C, D do not influence it.
C21_StatelessPerCall ==
    op = "Compute" => ret = Compute(arg)

\* Compute("abc") ran third, after a Compute_Stream and a Compute_Opt of
\* other messages, and returned its fresh-process digest
C21_Witness ==
    /\ op = "Compute"
    /\ Len(calls) = 3
    /\ calls[1].op = "Compute_Stream" /\ calls[1].message = Message(64, <<37, 11>>)
    /\ calls[2].op = "Compute_Opt" /\ calls[2].message = <<>>
    /\ arg = <<97, 98, 99>>
    /\ ret = "FCCEBFC28A382056D98AD93A9B7F6338"

----------------------------------------------------------------------------
(* downloader.py: FullDataDownloader.login and download_full_data on one   *)
(* object.  A string is the sequence of its characters.                     *)

\* longest login response the server gives in SpecLogin
MaxResponse == 3
\* most fetch_full_data requests of one object in SpecLogin
MaxFetches == 2

RECURSIVE split(_, _)
\* s.split(sep) for a one-character separator
split(s, sep) ==
    IF s = <<>> THEN << <<>> >>
    ELSE IF Head(s) = sep THEN << <<>> >> \o split(Tail(s), sep)
    ELSE << <<Head(s)>> \o Head(split(Tail(s), sep)) >> \o Tail(split(Tail(s), sep))

\* the characters of the responses: a letter and the delimiter
ResponseChars == {"u", ","}

\* what utils.login can return
Responses == SeqsUpTo(ResponseChars, MaxResponse)

\* the guard of download_full_data taken for "never"
not_set_never(url) == FALSE

\* not self.full_data_url: None and the empty string are both false values
not_set(url) == url = None \/ url = <<>>

\* os.path.join(output_dir, full_data_url.split("/")[-1])
download_filename(url) == <<"output/">> \o split(url, "/")[Len(split(url, "/"))]

InitLogin ==
    /\ data = <<>>
    /\ pos = 0
    /\ pos0 = 0
    /\ op = "new"
    /\ arg = None
    /\ status = "none"
    /\ ret = None
    /\ files = NoFiles
    /\ ClusterIdle
    /\ DigestIdle
    /\ LoggedOut

\* FullDataDownloader.login() when utils.login returns response; arg records
\* the response, ret the exception that was caught and wrapped
LoginResponse ==
    /\ op' = "login"
    /\ \E response \in Responses :
         /\ arg' = response
         /\ IF Len(split(response, ",")) # 2
            THEN /\ status' = "RuntimeError"
                 /\ ret' = <<"ValueError">>
                 /\ UNCHANGED <<login_key, full_data_url>>
            ELSE /\ status' = "ok"
                 /\ ret' = None
                 /\ login_key' = split(response, ",")[1]
                 /\ full_data_url' = split(response, ",")[2]
    /\ UNCHANGED <<data, pos, pos0, files, fetches>>
    /\ UNCHANGED cluster_vars
    /\ UNCHANGED digest_vars

\* FullDataDownloader.login() when utils.login raises (the request failed)
LoginFails ==
    /\ op' = "login"
    /\ arg' = None
    /\ status' = "RuntimeError"
    /\ ret' = <<"HTTPError">>
    /\ UNCHANGED <<data, pos, pos0, files>>
    /\ UNCHANGED login_vars
    /\ UNCHANGED cluster_vars
    /\ UNCHANGED digest_vars

\* FullDataDownloader.download_full_data() stopped by its guard
DownloadNotLoggedIn ==
    /\ not_set(full_data_url)
    /\ op' = "download_full_data"
    /\ arg' = None
    /\ status' = "ValueError"
    /\ ret' = None
    /\ UNCHANGED <<data, pos, pos0, files>>
    /\ UNCHANGED login_vars
    /\ UNCHANGED cluster_vars
    /\ UNCHANGED digest_vars

\* FullDataDownloader.download_full_data() past its guard: the fetch fails,
\* or the body is not gzip data (the output file was opened and stays
\* empty), or the file is written
DownloadFullData ==
    /\ ~not_set(full_data_url)
    /\ Len(fetches) < MaxFetches
    /\ op' = "download_full_data"
    /\ arg' = None
    /\ fetches' = Append(fetches, full_data_url)
    /\ \E outcome \in {"HTTPError", "BadGzipFile", "ok"} :
         IF outcome = "HTTPError"
         THEN /\ status' = "RuntimeError"
              /\ ret' = <<"HTTPError">>
              /\ UNCHANGED files
         ELSE IF outcome = "BadGzipFile"
         THEN /\ status' = "RuntimeError"
              /\ ret' = <<"BadGzipFile">>
              /\ files' = Written(files, download_filename(full_data_url), <<>>)
         ELSE /\ status' = "ok"
              /\ ret' = download_filename(full_data_url)
              /\ files' = Written(files, download_filename(full_data_url), <<"chunk">>)
    /\ UNCHANGED <<data, pos, pos0, login_key, full_data_url>>
    /\ UNCHANGED cluster_vars
    /\ UNCHANGED digest_vars

NextLogin == LoginResponse \/ LoginFails \/ DownloadNotLoggedIn \/ DownloadFullData

SpecLogin == InitLogin /\ [][NextLogin]_vars

\* C22: login raises ValueError when the response does not consist of
\* exactly two comma-separated fields, and login_key and full_data_url keep
\* the values they had before the call.
C22_MalformedLogin ==
    [][(op' = "login" /\ arg' # None /\ Len(split(arg', ",")) # 2)
       => /\ status' = "ValueError"
          /\ login_key' = login_key
          /\ full_data_url' = full_data_url]_vars

----------------------------------------------------------------------------
(* Specification of one reader used with every operation of BinReader, in  *)
(* any order, over buffers long enough for the 8-byte read                 *)

\* longest buffer handed to the reader in SpecForward
MaxForward == 9

\* buffers: up to two bytes from {1, 255} followed by zero bytes, and runs of
\* 0xFF (so that every 8-byte field fits the checker's integers)
ForwardBuffers ==
    {h \o [k \in 1..n |-> 0] : h \in SeqsUpTo({1, 255}, 2), n \in 0..(MaxForward - 2)}
        \cup {[k \in 1..n |-> 255] : n \in 0..MaxForward}

InitForward ==
    /\ data \in ForwardBuffers
    /\ pos = 0
    /\ pos0 = 0
    /\ op = "new"
    /\ arg = 0
    /\ status = "none"
    /\ ret = <<>>
    /\ files = NoFiles
    /\ ClusterIdle
    /\ DigestIdle
    /\ LoggedOut

ReadI64 == Apply("i64", 0, i64(data, pos))

ReadF32 == Apply("f32", 0, f32(data, pos))

NextForward ==
    Read \/ ReadU8 \/ ReadU32 \/ ReadI32 \/ ReadI64 \/ ReadF32 \/ Read7BitEncodedInt

SpecForward == InitForward /\ [][NextForward]_vars

\* C24: over any sequence of BinReader operations, succeeding or failing,
\* the cursor never decreases and never exceeds the buffer length, and no
\* byte is returned by two reads: every operation takes its bytes from
\* where the one before it stopped (pos0' = pos) up to its own cursor, and a
\* successful read(n) returns exactly those bytes.
C24_ForwardSinglePass ==
    [][/\ pos' >= pos
       /\ pos' <= Len(data)
       /\ pos0' = pos
       /\ (op' = "read" /\ status' = "ok") => ret' = SubSeq(data, pos + 1, pos')
       /\ (op' = "u8" /\ status' = "ok") => (pos' = pos + 1 /\ ret' = data[pos'])
       /\ (op' \in {"u32", "i32", "f32"} /\ status' = "ok") => pos' = pos + 4
       /\ (op' = "i64" /\ status' = "ok") => pos' = pos + 8]_vars

\* an 8-byte read succeeded after an earlier operation had moved the cursor
C24_Witness ==
    /\ op = "i64"
    /\ status = "ok"
    /\ pos0 = 1
    /\ pos = 9

----------------------------------------------------------------------------
(* Further claims about the reader, checked under SpecReader               *)

RECURSIVE PayloadSum(_, _, _)
\* the sum over i < k of (byte_i AND 0x7F) * 2^(7*i) for the k <= 4 bytes at
\* cursor p (below 2^28)
PayloadSum(buf, p, k) ==
    IF k = 0 THEN 0
    ELSE PayloadSum(buf, p, k - 1) + (buf[p + k] % 128) * 2^(7 * (k - 1))

\* C25: on success read7bit_encoded_int has consumed exactly k bytes,
\* 1 <= k <= 5, where byte k is the first with a clear high bit; it returns
\* the sum over i < k of (byte_i AND 0x7F) * 2^(7*i) (the fifth byte's share
\* is the high limb) and leaves the cursor after byte k.
C25_VarintStopsAtFirstClear ==
    (op = "read7bit_encoded_int" /\ status = "ok")
    => LET k == pos - pos0
       IN /\ k \in 1..5
          /\ data[pos0 + k] < 128
          /\ \A i \in 1..(k - 1) : data[pos0 + i] >= 128
          /\ ret = Wide(IF k = 5 THEN data[pos0 + 5] % 128 ELSE 0,
                        PayloadSum(data, pos0, IF k = 5 THEN 4 ELSE k))

\* the bytes FF 7F 01 at the cursor: the call stopped at 7F, the second byte,
\* and returned 127 + 127 * 128
C25_Witness ==
    /\ op = "read7bit_encoded_int"
    /\ status = "ok"
    /\ pos = pos0 + 2
    /\ Len(data) >= pos0 + 3
    /\ SubSeq(data, pos0 + 1, pos0 + 3) = <<255, 127, 1>>
    /\ ret = Wide(0, 16383)

\* C29: a read(n) that fails because fewer than n bytes remained leaves the
\* cursor at the end of the buffer, and from then on every read of one or
\* more bytes on the same reader fails as well.
C29_FailedReadConsumes ==
    [][/\ status' = "EOFError" => pos' = Len(data)
       /\ (pos = Len(data) /\ (op' # "read" \/ arg' >= 1))
          => (status' = "EOFError" /\ pos' = Len(data))]_vars

\* read(3) failed with two bytes left and the cursor went to the end
C29_Witness ==
    /\ op = "read"
    /\ arg = 3
    /\ status = "EOFError"
    /\ pos0 = Len(data) - 2
    /\ pos = Len(data)

----------------------------------------------------------------------------
(* Specification of the decoders on one record whose name holds arbitrary  *)
(* bytes, the buffer ending anywhere from the length prefix on             *)

\* longest name of a record in SpecName
MaxName == 3

\* name bytes: ASCII, a continuation byte, lead bytes of two- and three-byte
\* sequences, and a byte that never occurs in UTF-8
NameBytes == {65, 128, 195, 224, 255}

Names == SeqsUpTo(NameBytes, MaxName)

\* the record of input a on the wire
NameRecord(a) ==
    [seed_key |-> 106410000, user_id |-> 7, platform |-> 1,
     name |-> a.name, ticks |-> 25000, anon |-> a.anon]

\* the bytes before the record: header and count 1 of a flat user-data
\* buffer, or header, total, page index and count 1 of a cluster page
NameHeader(a) ==
    IF a.kind = "user_data" THEN LEBytes(1, 4) \o LEBytes(1, 4)
    ELSE LEBytes(1, 4) \o LEBytes(1, 8) \o LEBytes(0, 4) \o LEBytes(1, 4)

\* the buffer of input a: its last a.missing bytes were not received
NameBuffer(a) ==
    SubSeq(NameHeader(a) \o EncodePlayer(NameRecord(a)), 1,
           Len(NameHeader(a) \o EncodePlayer(NameRecord(a))) - a.missing)

NameInputs ==
    {a \in [kind : {"user_data", "cluster"}, name : Names, anon : {0, 1},
            missing : 0..(MaxName + 10)] : a.missing <= Len(a.name) + 10}

InitName ==
    /\ arg \in NameInputs
    /\ data = NameBuffer(arg)
    /\ pos = 0
    /\ pos0 = 0
    /\ op = "new"
    /\ status = "none"
    /\ ret = <<>>
    /\ files = NoFiles
    /\ ClusterIdle
    /\ DigestIdle
    /\ LoggedOut

NextName == ParseUserData \/ ParseClusterPage

SpecName == InitName /\ [][NextName]_vars

\* the offset of the first name byte in the buffer of input a
NameAt(a) == Len(NameHeader(a)) + 17 + Len(encode_varint(Wide(0, Len(a.name))))

\* the records the decoder returned (a cluster page returns them with its
\* counters)
DecodedPlayers ==
    IF op = "_parse_cluster_page" /\ status = "ok" THEN ret.players ELSE ret

\* C26: for every name length L and every content of the L name bytes, the
\* decoder consumes exactly L bytes for the name and reads generation_ticks
\* and is_anonymous from the 9 bytes right after them; decoding the name
\* never fails, and the name read fails only when fewer than L bytes remain.
C26_NameKeepsStream ==
    op \in {"_parse_user_data", "_parse_cluster_page"}
    => LET L == Len(arg.name)
           rem == Len(data) - NameAt(arg)
       IN /\ status \in {"ok", "EOFError"}
          /\ rem >= L + 9
             => /\ status = "ok"
                /\ pos = NameAt(arg) + L + 9
                /\ Len(DecodedPlayers) = 1
                /\ DecodedPlayers[1].account_name = decode_utf8_replace(arg.name)
                /\ Len(DecodedPlayers[1].account_name) <= L
                /\ DecodedPlayers[1].generation_capacity = format_generation_capacity(25000 * 60)
                /\ DecodedPlayers[1].is_anonymous = (arg.anon > 0)
          /\ rem < L + 9 => (status = "EOFError" /\ DecodedPlayers = <<>>)
          /\ (rem >= 0 /\ rem < L + 9) => pos = Len(data)

\* the name bytes E0 FF 41 (a cut-off three-byte sequence, an invalid byte
\* and "A") decoded to two replacement characters and "A", and the fields
\* after the name were read
C26_Witness ==
    /\ op = "_parse_user_data"
    /\ status = "ok"
    /\ arg.name = <<224, 255, 65>>
    /\ arg.anon = 1
    /\ ret[1].account_name = <<Replacement, Replacement, 65>>
    /\ ret[1].is_anonymous
    /\ pos = Len(data)

----------------------------------------------------------------------------
(* SpecTrailing: a decoder is handed a whole buffer whose record count is  *)
(* negative, zero or positive and that goes on after the last announced    *)
(* record.                                                                 *)

\* the largest record count of SpecTrailing
MaxTrailing == 2

\* the counts of SpecTrailing go down to -MaxNegative
MaxNegative == 2

\* the largest number of bytes after the last announced record
MaxExtra == 3

\* n bytes that follow the last announced record
ExtraBytes(n) == SubSeq(EncodePlayer(WirePlayer(1)), 1, n)

\* count is the record count of the flat, cluster and top-ten blocks, seeds
\* the one of the per-seed block (its records before the NaN one)
TrailingInputs ==
    [kind : {"user_data", "cluster", "top_ten"},
     count : (0 - MaxNegative)..MaxTrailing, seeds : {0}, extra : 0..MaxExtra]
    \cup [kind : {"full"}, count : (0 - 1)..1,
          seeds : (0 - MaxNegative)..(Len(WireSeeds) - 1), extra : 0..MaxExtra]

InitTrailing ==
    /\ arg \in TrailingInputs
    /\ data = ProducedBuffer(arg) \o ExtraBytes(arg.extra)
    /\ pos = 0
    /\ pos0 = 0
    /\ op = "new"
    /\ status = "none"
    /\ ret = <<>>
    /\ files = NoFiles
    /\ ClusterIdle
    /\ DigestIdle
    /\ LoggedOut

NextTrailing ==
    \/ ParseUserData
    \/ ParseClusterPage
    \/ LoadTopTenPlayerData
    \/ ParseFullData

SpecTrailing == InitTrailing /\ [][NextTrailing]_vars

\* the offset right after the count field of the decoder's block
CountFieldEnd(a) ==
    IF a.kind \in {"user_data", "top_ten"} THEN 8
    ELSE IF a.kind = "cluster" THEN 20
    ELSE 4 + Len(TopTenBuffer(a.count, a.count)) + Len(SummaryBlock) + 8

\* the count field the claim is about
CountField(a) == IF a.kind = "full" THEN a.seeds ELSE a.count

\* the number of records the decoder produced: returned, or written as rows
\* under the header row
DecodedCount ==
    IF op = "_parse_user_data" THEN Len(ret)
    ELSE IF op = "_parse_cluster_page" THEN Len(ret.players)
    ELSE IF op = "_load_top_ten_player_data" THEN Len(files["top_ten.csv"]) - 1
    ELSE Len(files["all.csv"]) - 1

\* C30: for the top-ten, flat user-data, per-seed and cluster-page decoders a
\* count field <= 0 is not an error: it yields an empty record list and
\* consumes no bytes after the count field; the bytes after the count (or
\* after the last announced record when count > 0) are left unread without
\* an error.
C30_CountAndTrailingBytes ==
    (op \in {"_parse_user_data", "_parse_cluster_page",
             "_load_top_ten_player_data", "parse_full_data"}
     /\ status # "FileNotFoundError")
    => /\ status = "ok"
       /\ pos = Len(data) - arg.extra
       /\ DecodedCount = Announced(CountField(arg))
       /\ CountField(arg) <= 0 => (DecodedCount = 0 /\ pos = CountFieldEnd(arg))
       /\ (op = "parse_full_data" /\ arg.count <= 0)
          => files["top_ten.csv"] = <<PlayerHeader>>

\* a full-data file whose per-seed block announces -1 records and is followed
\* by three more bytes was decoded: all.csv holds the header row only and the
\* three bytes were not read
C30_Witness ==
    /\ op = "parse_full_data"
    /\ status = "ok"
    /\ arg.seeds = 0 - 1
    /\ arg.extra = 3
    /\ files["all.csv"] = <<SeedHeader>>
    /\ pos = Len(data) - 3
    /\ pos = CountFieldEnd(arg)

====
